---- MODULE Spec2Model ----
(***************************************************************************)
(* Octanify: conversion of Cycles materials to Octane materials.            *)
(*                                                                         *)
(* The module holds several specifications over one set of variables:      *)
(*   Spec        the batch layer: cache, convert_material and the batch    *)
(*               entry points (conversion_engine.py, operators.py)         *)
(*   SpecCache   the batch layer with a host script that fills the cache   *)
(*               through get_cache() (utils/cache.py)                      *)
(*   SpecGroup   the lowering stages on trees that hold a node group and   *)
(*               one or two output nodes                                   *)
(*   SpecSched   the schedule builder of GraphEngine (graph_engine.py)     *)
(*   SpecSocket  socket resolution (node_registry.py)                      *)
(*   SpecLower   node lowering, link resolution and the post-processors    *)
(*               that touch nodes and links, called in the order of        *)
(*               convert_material (graph_engine.py, conversion_engine.py,  *)
(*               volumetric_handler.py)                                    *)
(*   SpecTransfer  analysis and property transfer of one Principled BSDF   *)
(*               (shader_detection.py, property_mapper.py)                 *)
(*   SpecFlatten  the link loop of the analysis: reroute and transparent   *)
(*               nodes flattened, links deduplicated (shader_detection.py) *)
(* Each specification keeps the variables of the other layers at rest.     *)
(***************************************************************************)
EXTENDS Integers, Sequences, FiniteSets, TLC

VARIABLES
    cache,      \* ConversionCache._materials: original name -> converted name
    cached_nodes,  \* ConversionCache._nodes: (material, node name) -> node
    materials,  \* bpy.data.materials: names of the materials the host holds
    slots,      \* object -> sequence of slot.material (a name or NONE)
    pc,         \* "idle", or "batch" while a batch entry point is running
    entry,      \* the entry point of the running batch
    queue,      \* the (object, slot index) pairs the running batch has left
    converted,  \* the list `converted` the running batch has built
    outcome,    \* how the last finished top-level call ended
    calls,      \* the convert_material calls since the last cache reset
    analysis,   \* the TreeAnalysis a GraphEngine works on: nodes and links
    deps,       \* GraphEngine._deps: node name -> set of upstream node names
    runs,       \* the schedules compute_schedule has returned so far
    query,      \* the arguments of a socket resolution call
    resolved,   \* what the call returned: a position in the collection, 0 for None
    source,     \* the TreeAnalysis of the material being lowered
    host,       \* what the render plugin offers: node types and socket names
    step,       \* the stage of the lowering that runs next
    tree,       \* the nodes of the target tree, in creation order
    removed,    \* the nodes removed from the target tree
    node_map,   \* source node name -> target node
    links,      \* the links of the target tree
    created,    \* every links.new(...) so far, with what held when it was made
    cycles_node,  \* the source node whose properties are transferred
    node_info,    \* the NodeInfo snapshot analyze_tree took of it
    detected,     \* the pattern flags of the TreeAnalysis
    octane_node,  \* the target node: its input sockets and attributes
    owner,        \* the obj argument of convert_material: its scale, or None
    phase,        \* the call of the transfer layer that runs next
    node_tree,    \* the links of the source tree handed to analyze_tree
    flat          \* what its link loop produced: analysis.links, has_alpha

batchVars ==
    <<cache, cached_nodes, materials, slots, pc, entry, queue, converted, outcome, calls>>
schedVars == <<analysis, deps, runs>>
sockVars == <<query, resolved>>
lowerVars == <<source, host, step, tree, removed, node_map, links, created>>
transferVars == <<cycles_node, node_info, detected, octane_node, owner, phase>>
flattenVars == <<node_tree, flat>>

vars == <<batchVars, schedVars, sockVars, lowerVars, transferVars, flattenVars>>

\* what the actions of one layer leave alone
restOfBatch == <<schedVars, sockVars, lowerVars, transferVars, flattenVars>>
restOfSched == <<batchVars, sockVars, lowerVars, transferVars, flattenVars>>
restOfSock == <<batchVars, schedVars, lowerVars, transferVars, flattenVars>>
restOfLower == <<batchVars, schedVars, sockVars, transferVars, flattenVars>>
restOfTransfer == <<batchVars, schedVars, sockVars, lowerVars, flattenVars>>
restOfFlatten == <<batchVars, schedVars, sockVars, lowerVars, transferVars>>

(***************************************************************************)
(* Bounds                                                                  *)
(***************************************************************************)
MaxSlots == 2
MaxCalls == 2
MaxCopies == 2

NONE == "None"

(***************************************************************************)
(* The host's scene: source materials and objects.                         *)
(***************************************************************************)
SourceMaterials == {"MatA", "MatB", "Bare"}
\* materials whose node_tree is None
BareMaterials == {"Bare"}
Objects == <<"ObjA", "ObjB">>

HasNodeTree(m) == m \notin BareMaterials

Range(s) == {s[i] : i \in DOMAIN s}

RECURSIVE SeqsUpTo(_, _)
SeqsUpTo(S, n) ==
    IF n = 0 THEN {<<>>}
    ELSE LET shorter == SeqsUpTo(S, n - 1)
         IN  shorter \cup {Append(s, x) : s \in shorter, x \in S}

(***************************************************************************)
(* ConversionCache (utils/cache.py)                                        *)
(***************************************************************************)
EmptyCache == [k \in {} |-> NONE]

has_material(c, name) == name \in DOMAIN c

get_converted_material_name(c, name) ==
    IF name \in DOMAIN c THEN c[name] ELSE NONE

register_material(c, original, conv) ==
    [k \in DOMAIN c \cup {original} |-> IF k = original THEN conv ELSE c[k]]

register_node(n, mat_name, node_name, new_node) ==
    [k \in DOMAIN n \cup {<<mat_name, node_name>>} |->
        IF k = <<mat_name, node_name>> THEN new_node ELSE n[k]]

\* bpy.data.materials.get(name)
MaterialsGet(mats, name) == IF name \in mats THEN name ELSE NONE

(***************************************************************************)
(* The host names a copy: the wanted name, or the wanted name with the     *)
(* first free numeric suffix when a material of that name exists.          *)
(***************************************************************************)
Digits == "0123456789"
Suffix(i) == IF i = 0 THEN "" ELSE ".00" \o SubSeq(Digits, i + 1, i + 1)

UniqueName(mats, wanted) ==
    LET free == {i \in 0..9 : (wanted \o Suffix(i)) \notin mats}
        i == CHOOSE i \in free : \A j \in free : i <= j
    IN  wanted \o Suffix(i)

(***************************************************************************)
(* GraphEngine's constructor against the call convert_material makes.      *)
(***************************************************************************)
\* def __init__(self, analysis)
GraphEngineInitParams == {"analysis"}
\* GraphEngine(analysis, group_converter_cb=...)
GraphEngineCallArgs == {"analysis", "group_converter_cb"}

\* Python raises TypeError on a keyword the callee does not declare.
GraphEngineCallRaises == ~(GraphEngineCallArgs \subseteq GraphEngineInitParams)

(***************************************************************************)
(* convert_material: the stages in the order of the code.                  *)
(***************************************************************************)
PipelineStages ==
    << "analyze_tree", "copy", "clear_tree", "GraphEngine", "create_nodes",
       "transfer_properties", "rebuild_links", "normal_map_fallback",
       "fix_mix_shader_links", "handle_alpha", "emission_post",
       "emission_node_insertion", "handle_volumetrics", "apply_gamma",
       "scale_correction", "preserve_drivers", "register_material" >>

StageRaises(stage) == stage = "GraphEngine" /\ GraphEngineCallRaises

\* The stages a call executes: up to and including the first one that raises.
ExecutedStages ==
    LET raising == {i \in DOMAIN PipelineStages : StageRaises(PipelineStages[i])}
    IN  IF raising = {} THEN PipelineStages
        ELSE SubSeq(PipelineStages, 1,
                    CHOOSE i \in raising : \A j \in raising : i <= j)

PipelineRaises == \E i \in DOMAIN PipelineStages : StageRaises(PipelineStages[i])

\* A guard that forgets the material without a node tree.
MissingPrerequisite_OnlyNone(mat) == mat = NONE

\* if mat is None or mat.node_tree is None
MissingPrerequisite(mat) == mat = NONE \/ ~HasNodeTree(mat)

\* convert_material(mat): the result, whether it raised, the stages it ran and
\* the cache and the host's materials it leaves.
ConvertMaterial(mat, c, mats) ==
    IF MissingPrerequisite(mat)
    THEN [result |-> NONE, raised |-> FALSE, stages |-> <<>>,
          cache |-> c, materials |-> mats]
    ELSE IF has_material(c, mat)
    THEN [result |-> MaterialsGet(mats, get_converted_material_name(c, mat)),
          raised |-> FALSE, stages |-> <<>>, cache |-> c, materials |-> mats]
    ELSE LET ran == ExecutedStages
             new_name == UniqueName(mats, mat \o "_OCTANE")
             copied == "copy" \in Range(ran)
             registered == "register_material" \in Range(ran)
         IN  [result |-> IF PipelineRaises THEN NONE ELSE new_name,
              raised |-> PipelineRaises,
              stages |-> ran,
              cache |-> IF registered THEN register_material(c, mat, new_name) ELSE c,
              materials |-> IF copied THEN mats \cup {new_name} ELSE mats]

CallRecord(mat, r, before) ==
    [mat |-> mat, result |-> r.result, raised |-> r.raised, stages |-> r.stages,
     cacheKept |-> r.cache = before.cache,
     materialsKept |-> r.materials = before.materials]

(***************************************************************************)
(* Batch layer                                                             *)
(***************************************************************************)
SlotChoices == SeqsUpTo(SourceMaterials \cup {NONE}, MaxSlots)
\* the material slots of the second object of the scene
OtherSlots == <<"MatB", "MatA">>

\* the model stops copying materials at MaxCopies copies
MayCopy(mat, c) ==
    \/ mat = NONE
    \/ ~HasNodeTree(mat)
    \/ has_material(c, mat)
    \/ Cardinality(materials \ SourceMaterials) < MaxCopies

BatchInit ==
    /\ cache = EmptyCache
    /\ cached_nodes = EmptyCache
    /\ materials = SourceMaterials
    /\ \E chosen \in SlotChoices :
          slots = [obj \in Range(Objects) |->
                      IF obj = Objects[1] THEN chosen ELSE OtherSlots]
    /\ pc = "idle"
    /\ entry = NONE
    /\ queue = <<>>
    /\ converted = <<>>
    /\ outcome = [kind |-> "none", value |-> <<>>]
    /\ calls = <<>>

ObjectQueue(obj) == [i \in 1..Len(slots[obj]) |-> <<obj, i>>]

RECURSIVE SceneQueueFrom(_)
SceneQueueFrom(k) ==
    IF k > Len(Objects) THEN <<>>
    ELSE ObjectQueue(Objects[k]) \o SceneQueueFrom(k + 1)

\* reset_cache(), called by a host script between batches
ResetCache ==
    /\ UNCHANGED restOfBatch
    /\ pc = "idle"
    /\ cache' = EmptyCache
    /\ cached_nodes' = EmptyCache
    /\ calls' = <<>>
    /\ UNCHANGED <<materials, slots, pc, entry, queue, converted, outcome>>

\* convert_material(mat) called on its own
ConvertMaterialCall ==
    /\ UNCHANGED restOfBatch
    /\ pc = "idle"
    /\ Len(calls) < MaxCalls
    /\ \E mat \in SourceMaterials \cup {NONE} :
          LET r == ConvertMaterial(mat, cache, materials)
          IN  /\ MayCopy(mat, cache)
              /\ cache' = r.cache
              /\ materials' = r.materials
              /\ calls' = Append(calls, CallRecord(mat, r, [cache |-> cache, materials |-> materials]))
              /\ outcome' = [kind |-> IF r.raised THEN "raised" ELSE "returned",
                             value |-> <<r.result>>]
    /\ UNCHANGED <<cached_nodes, slots, pc, entry, queue, converted>>

\* convert_object_materials(obj) called on its own: the cache is kept
StartObject ==
    /\ UNCHANGED restOfBatch
    /\ pc = "idle"
    /\ \E obj \in Range(Objects) :
          /\ queue' = ObjectQueue(obj)
          /\ entry' = "convert_object_materials"
    /\ pc' = "batch"
    /\ converted' = <<>>
    /\ UNCHANGED <<cache, cached_nodes, materials, slots, outcome, calls>>

\* OCTANIFY_OT_convert.execute, batch mode ACTIVE
StartOperatorActive ==
    /\ UNCHANGED restOfBatch
    /\ pc = "idle"
    /\ \E obj \in Range(Objects) :
          /\ queue' = ObjectQueue(obj)
          /\ entry' = "operator"
    /\ pc' = "batch"
    /\ converted' = <<>>
    /\ cache' = EmptyCache
    /\ cached_nodes' = EmptyCache
    /\ calls' = <<>>
    /\ UNCHANGED <<materials, slots, outcome>>

\* A scene batch that starts on the cache as it finds it.
StartScene_KeepsCache ==
    /\ UNCHANGED restOfBatch
    /\ pc = "idle"
    /\ entry' \in {"convert_scene_materials", "operator"}
    /\ queue' = SceneQueueFrom(1)
    /\ pc' = "batch"
    /\ converted' = <<>>
    /\ UNCHANGED <<cache, cached_nodes, materials, slots, outcome, calls>>

\* convert_scene_materials(), on its own or from the operator (batch mode ALL)
StartScene ==
    /\ UNCHANGED restOfBatch
    /\ pc = "idle"
    /\ entry' \in {"convert_scene_materials", "operator"}
    /\ queue' = SceneQueueFrom(1)
    /\ pc' = "batch"
    /\ converted' = <<>>
    /\ cache' = EmptyCache
    /\ cached_nodes' = EmptyCache
    /\ calls' = <<>>
    /\ UNCHANGED <<materials, slots, outcome>>

\* How an exception that leaves convert_material ends the batch: the operator
\* catches it and cancels, the plain entry points let it through.
RaisedOutcome(e) ==
    IF e = "operator" THEN [kind |-> "CANCELLED", value |-> <<>>]
    ELSE [kind |-> "raised", value |-> <<>>]

\* one iteration of `for slot in obj.material_slots`
StepSlot ==
    /\ UNCHANGED restOfBatch
    /\ pc = "batch"
    /\ queue # <<>>
    /\ UNCHANGED cached_nodes
    /\ LET obj == Head(queue)[1]
           i == Head(queue)[2]
           mat == slots[obj][i]
       IN  IF mat = NONE
           THEN /\ queue' = Tail(queue)
                /\ UNCHANGED <<cache, materials, slots, pc, entry, converted, outcome, calls>>
           ELSE /\ Len(calls) < MaxCalls
                /\ MayCopy(mat, cache)
                /\ LET r == ConvertMaterial(mat, cache, materials)
                   IN  /\ cache' = r.cache
                       /\ materials' = r.materials
                       /\ calls' = Append(calls, CallRecord(mat, r, [cache |-> cache, materials |-> materials]))
                       /\ IF r.raised
                          THEN /\ pc' = "idle"
                               /\ outcome' = RaisedOutcome(entry)
                               /\ UNCHANGED <<slots, entry, queue, converted>>
                          ELSE /\ queue' = Tail(queue)
                               /\ IF r.result # NONE
                                  THEN /\ slots' = [slots EXCEPT ![obj][i] = r.result]
                                       /\ converted' = Append(converted, r.result)
                                  ELSE UNCHANGED <<slots, converted>>
                               /\ UNCHANGED <<pc, entry, outcome>>

\* the batch returns its list
FinishBatch ==
    /\ UNCHANGED restOfBatch
    /\ pc = "batch"
    /\ queue = <<>>
    /\ pc' = "idle"
    /\ outcome' = [kind |-> IF entry = "operator" THEN "FINISHED" ELSE "returned",
                   value |-> converted]
    /\ UNCHANGED <<cache, cached_nodes, materials, slots, entry, queue, converted, calls>>

\* a layer at rest: no engine, no analysis
NoAnalysis == [nodes |-> <<>>, links |-> <<>>]
NoDeps == [n \in {} |-> {}]

SchedAtRest ==
    /\ analysis = NoAnalysis
    /\ deps = NoDeps
    /\ runs = <<>>

NoQuery == [kind |-> NONE]
PENDING == -1

SockAtRest ==
    /\ query = NoQuery
    /\ resolved = PENDING

NoHost == [accepts |-> {}, mix_inputs |-> <<>>]
EmptyMap == [n \in {} |-> NONE]

LowerAtRest ==
    /\ source = NoAnalysis
    /\ host = NoHost
    /\ step = "idle"
    /\ tree = <<>>
    /\ removed = {}
    /\ node_map = EmptyMap
    /\ links = {}
    /\ created = {}

NoNode == [bl_idname |-> NONE, inputs |-> <<>>]
NoInfo == [bl_idname |-> NONE, inputs |-> EmptyMap, input_identifiers |-> EmptyMap]
NoObject == [scale |-> <<>>]
NoFlags == [has_glass |-> FALSE, has_emission |-> FALSE, has_sss |-> FALSE,
            transmission_weight |-> 0]

TransferAtRest ==
    /\ cycles_node = NoNode
    /\ node_info = NoInfo
    /\ detected = NoFlags
    /\ octane_node = NoNode
    /\ owner = NoObject
    /\ phase = "idle"

NoTree == [links |-> <<>>]
NoFlat == [done |-> FALSE, links |-> <<>>, has_alpha |-> FALSE]

FlattenAtRest ==
    /\ node_tree = NoTree
    /\ flat = NoFlat

Init == BatchInit /\ SchedAtRest /\ SockAtRest /\ LowerAtRest /\ TransferAtRest /\ FlattenAtRest

Next ==
    \/ ResetCache
    \/ ConvertMaterialCall
    \/ StartObject
    \/ StartOperatorActive
    \/ StartScene
    \/ StepSlot
    \/ FinishBatch

Spec == Init /\ [][Next]_vars

(***************************************************************************)
(* The batch layer with a host script that fills the cache between the     *)
(* batches: get_cache() hands out the ConversionCache, whose               *)
(* register_material and register_node are public.                         *)
(***************************************************************************)
\* what such a script records: a material with the material it passes for
\* its conversion, and a node of that material
HostMaterialEntry == <<"MatA", "MatB">>
HostNodeEntry == <<"MatA", "Principled BSDF">>

\* cache = get_cache(); cache.register_material(original, converted);
\* cache.register_node(mat_name, node_name, new_node)
HostRegisters ==
    /\ UNCHANGED restOfBatch
    /\ pc = "idle"
    /\ cache' = register_material(cache, HostMaterialEntry[1], HostMaterialEntry[2])
    /\ cached_nodes' = register_node(cached_nodes, HostNodeEntry[1], HostNodeEntry[2],
                                     HostNodeEntry[2])
    /\ UNCHANGED <<materials, slots, pc, entry, queue, converted, outcome, calls>>

CacheNext ==
    \/ Next
    \/ HostRegisters

InitCache == BatchInit /\ SchedAtRest /\ SockAtRest /\ LowerAtRest /\ TransferAtRest /\ FlattenAtRest

SpecCache == InitCache /\ [][CacheNext]_vars

(***************************************************************************)
(* Claims on the cache at the start of a batch (specification SpecCache)   *)
(***************************************************************************)
ResettingEntries == {"convert_scene_materials", "operator"}

\* a call of the running batch that went through the pipeline
ConvertedInBatch(mat) ==
    \E i \in DOMAIN calls : calls[i].mat = mat /\ calls[i].stages # <<>>

\* C17: a batch started through convert_scene_materials or through the
\* operator starts with both maps of the cache empty, and while such a batch
\* runs every material the cache knows was converted by a call of that batch
\* (so a hit can only be on a material converted earlier in the batch).
C17_BatchStartsEmpty ==
    /\ [][(StartOperatorActive \/ StartScene) =>
             (cache' = EmptyCache /\ cached_nodes' = EmptyCache)]_vars
    /\ []((pc = "batch" /\ entry \in ResettingEntries) =>
             /\ cached_nodes = EmptyCache
             /\ \A mat \in DOMAIN cache : ConvertedInBatch(mat))

\* a resetting batch is running after a call hit an entry the host script
\* had put into the cache
C17_Witness ==
    /\ pc = "batch"
    /\ entry \in ResettingEntries
    /\ outcome = [kind |-> "returned", value |-> <<"MatB">>]
    /\ cache = EmptyCache
    /\ cached_nodes = EmptyCache

(***************************************************************************)
(* Claims on the batch layer (specification Spec)                          *)
(***************************************************************************)
IsSubsequence(small, big) ==
    \E f \in [DOMAIN small -> DOMAIN big] :
        /\ \A i \in DOMAIN small : big[f[i]] = small[i]
        /\ \A i, j \in DOMAIN small : i < j => f[i] < f[j]

\* a call that had a node graph to convert
PipelineCall(rec) == rec.mat # NONE /\ HasNodeTree(rec.mat)

\* C1: between two cache resets, two calls of convert_material on the same
\* source material return the same converted material, and the second call
\* runs no stage of the pipeline: it copies no material and creates no node.
C1_SecondCallReusesFirst ==
    \A i, j \in DOMAIN calls :
        (i < j /\ calls[i].mat = calls[j].mat /\ PipelineCall(calls[i])) =>
            /\ ~calls[i].raised /\ ~calls[j].raised
            /\ calls[i].result # NONE
            /\ calls[j].result = calls[i].result
            /\ calls[j].stages = <<>>
            /\ calls[j].materialsKept

\* C2: an error raised by the pipeline of one material does not leave
\* convert_material, and the batch it belongs to is not ended by it.
C2_ErrorStaysAtMaterialBoundary ==
    /\ \A i \in DOMAIN calls : ~calls[i].raised
    /\ outcome.kind \notin {"raised", "CANCELLED"}

\* the stages the claim names, in its order, by the calls that perform them
C3_ClaimedStages ==
    << "analyze_tree", "GraphEngine", "create_nodes", "transfer_properties",
       "rebuild_links", "fix_mix_shader_links", "register_material" >>

\* C3: a call on a material with a node graph and no cache entry runs analysis,
\* schedule building, node lowering, property transfer, link resolution and
\* post-processing in that order, registers the result and returns it.
C3_PipelineRunsToCompletion ==
    \A i \in DOMAIN calls :
        (PipelineCall(calls[i]) /\ calls[i].stages # <<>>) =>
            /\ IsSubsequence(C3_ClaimedStages, calls[i].stages)
            /\ ~calls[i].raised
            /\ calls[i].result # NONE
            /\ ~calls[i].cacheKept

\* C4: convert_material on no material, or on a material without a node
\* graph, returns none, runs no stage, copies no material and leaves the cache.
C4_NoGraphNoPipeline ==
    \A i \in DOMAIN calls :
        (calls[i].mat = NONE \/ ~HasNodeTree(calls[i].mat)) =>
            /\ calls[i].result = NONE
            /\ ~calls[i].raised
            /\ calls[i].stages = <<>>
            /\ calls[i].cacheKept
            /\ calls[i].materialsKept

C4_Witness ==
    /\ \E i \in DOMAIN calls : calls[i].mat = NONE
    /\ \E i \in DOMAIN calls : calls[i].mat \in BareMaterials
    /\ materials # SourceMaterials

BatchAtRest ==
    /\ cache = EmptyCache
    /\ cached_nodes = EmptyCache
    /\ materials = SourceMaterials
    /\ slots = [obj \in Range(Objects) |-> <<>>]
    /\ pc = "idle"
    /\ entry = NONE
    /\ queue = <<>>
    /\ converted = <<>>
    /\ outcome = [kind |-> "none", value |-> <<>>]
    /\ calls = <<>>

(***************************************************************************)
(* TreeAnalysis records (shader_detection.py)                              *)
(***************************************************************************)
\* node.location of the nodes of the source trees, by node name; a node the
\* table does not name sits at the origin
SourceLocations ==
    [Tex |-> <<-800, 200>>, Nrm |-> <<-600, -200>>, Bump |-> <<-400, -200>>,
     Blend |-> <<-600, 400>>, Principled |-> <<-200, 200>>,
     Diffuse |-> <<-200, 400>>, Mix |-> <<0, 200>>, Vol |-> <<0, -200>>,
     Out |-> <<200, 200>>]

SourceLocation(name) ==
    IF name \in DOMAIN SourceLocations THEN SourceLocations[name] ELSE <<0, 0>>

NodeInfo(name, bl_idname, label, blend_type) ==
    [name |-> name, bl_idname |-> bl_idname, label |-> label,
     blend_type |-> blend_type, location |-> SourceLocation(name)]

LinkInfo(from_node, from_socket, from_id, to_node, to_socket, to_id, to_index) ==
    [from_node |-> from_node, from_socket |-> from_socket,
     to_node |-> to_node, to_socket |-> to_socket,
     from_socket_identifier |-> from_id, to_socket_identifier |-> to_id,
     to_socket_index |-> to_index]

\* analysis.nodes is a dict in insertion order: its keys, in that order
NodeNames(a) == [i \in DOMAIN a.nodes |-> a.nodes[i].name]

\* name in analysis.nodes
HasNode(a, name) == \E i \in DOMAIN a.nodes : a.nodes[i].name = name

\* analysis.nodes.get(name)
NodeGet(a, name) ==
    IF \E i \in DOMAIN a.nodes : a.nodes[i].name = name
    THEN a.nodes[CHOOSE i \in DOMAIN a.nodes : a.nodes[i].name = name]
    ELSE NONE

(***************************************************************************)
(* GraphEngine: dependency graph and schedule (graph_engine.py)            *)
(***************************************************************************)
\* _build_dependency_graph: every node gets a set, every link adds its
\* source to the set of its destination
BuildDependencyGraph(a) ==
    LET names == Range(NodeNames(a))
                   \cup {a.links[i].to_node : i \in DOMAIN a.links}
                   \cup {a.links[i].from_node : i \in DOMAIN a.links}
    IN  [n \in names |->
            {a.links[i].from_node : i \in {j \in DOMAIN a.links : a.links[j].to_node = n}}]

\* the sequences that list the set S once each
Perms(S) == {p \in [1..Cardinality(S) -> S] : Range(p) = S}

\* A set of strings has no iteration order of its own: each run iterates each
\* dependency set in some order. OrdersOver(names, d) gives every node of
\* `names` one order of its set.
RECURSIVE OrdersOver(_, _)
OrdersOver(names, d) ==
    IF names = {} THEN {[n \in {} |-> <<>>]}
    ELSE LET n == CHOOSE x \in names : TRUE
         IN  {[k \in DOMAIN f \cup {n} |-> IF k = n THEN p ELSE f[k]] :
                 f \in OrdersOver(names \ {n}, d), p \in Perms(d[n])}

IterationOrders(d) == OrdersOver(DOMAIN d, d)

RECURSIVE Visit(_, _, _)
RECURSIVE VisitAll(_, _, _)

\* A visit that schedules the node before its dependencies.
Visit_PreOrder(node_name, st, ord) ==
    IF node_name \in st.visited THEN st
    ELSE VisitAll(ord[node_name],
                  [visited |-> st.visited \cup {node_name},
                   schedule |-> Append(st.schedule, node_name)],
                  ord)

\* A visit that lists a node again each time it is reached.
Visit_ListsRevisit(node_name, st, ord) ==
    IF node_name \in st.visited
    THEN [st EXCEPT !.schedule = Append(@, node_name)]
    ELSE LET marked == [st EXCEPT !.visited = @ \cup {node_name}]
             after == VisitAll(ord[node_name], marked, ord)
         IN  [after EXCEPT !.schedule = Append(@, node_name)]

\* _visit: depth first, the node after its dependencies
Visit(node_name, st, ord) ==
    IF node_name \in st.visited THEN st
    ELSE LET marked == [st EXCEPT !.visited = @ \cup {node_name}]
             after == VisitAll(ord[node_name], marked, ord)
         IN  [after EXCEPT !.schedule = Append(@, node_name)]

\* `for dep in ...: self._visit(dep)`, and the loops of compute_schedule
VisitAll(names, st, ord) ==
    IF names = <<>> THEN st
    ELSE VisitAll(Tail(names), Visit(Head(names), st, ord), ord)

\* the names of the nodes of type ShaderNodeOutputMaterial, in dict order
OutputNodes(a) ==
    SelectSeq(NodeNames(a),
              LAMBDA n : NodeGet(a, n).bl_idname = "ShaderNodeOutputMaterial")

\* A schedule that starts from every node, output node or not.
ComputeSchedule_AllNodes(a, ord) ==
    VisitAll(NodeNames(a), [visited |-> {}, schedule |-> <<>>], ord).schedule

\* compute_schedule, the dependency sets iterated as ord says
ComputeSchedule(a, ord) ==
    LET roots == IF OutputNodes(a) = <<>> THEN NodeNames(a) ELSE OutputNodes(a)
    IN  VisitAll(roots, [visited |-> {}, schedule |-> <<>>], ord).schedule

(***************************************************************************)
(* Specification SpecSched: an engine is built on an analysis and its      *)
(* schedule computed, more than once.                                      *)
(***************************************************************************)
MaxLinks == 3
MaxRuns == 2

SchedNodeNames == <<"n1", "n2", "n3">>
SchedTypes == {"ShaderNodeOutputMaterial", "ShaderNodeBsdfDiffuse"}

SchedLink(f, t) == LinkInfo(f, "BSDF", "BSDF", t, "Surface", "Surface", 0)

SchedLinkChoices ==
    {SchedLink(e[1], e[2]) :
        e \in {x \in Range(SchedNodeNames) \X Range(SchedNodeNames) : x[1] # x[2]}}

NoDuplicates(s) == \A i, j \in DOMAIN s : i # j => s[i] # s[j]

SchedAnalyses ==
    {[nodes |-> [i \in DOMAIN SchedNodeNames |->
                    NodeInfo(SchedNodeNames[i], types[i], SchedNodeNames[i], "MIX")],
      links |-> ls] :
        types \in [DOMAIN SchedNodeNames -> SchedTypes],
        ls \in {l \in SeqsUpTo(SchedLinkChoices, MaxLinks) : NoDuplicates(l)}}

SchedInit ==
    /\ analysis \in SchedAnalyses
    /\ deps = NoDeps
    /\ runs = <<>>

\* GraphEngine(analysis)
Construct ==
    /\ UNCHANGED restOfSched
    /\ deps = NoDeps
    /\ deps' = BuildDependencyGraph(analysis)
    /\ UNCHANGED <<analysis, runs>>

\* engine.compute_schedule()
ComputeScheduleCall ==
    /\ UNCHANGED restOfSched
    /\ deps # NoDeps
    /\ Len(runs) < MaxRuns
    /\ \E ord \in IterationOrders(deps) :
          runs' = Append(runs, ComputeSchedule(analysis, ord))
    /\ UNCHANGED <<analysis, deps>>

SchedNext ==
    \/ Construct
    \/ ComputeScheduleCall

InitSched == SchedInit /\ BatchAtRest /\ SockAtRest /\ LowerAtRest /\ TransferAtRest /\ FlattenAtRest

SpecSched == InitSched /\ [][SchedNext]_vars

(***************************************************************************)
(* Claims on the schedule builder (specification SpecSched)                *)
(***************************************************************************)
Position(s, x) == CHOOSE i \in DOMAIN s : s[i] = x

\* the nodes reachable from n along links, upstream, in one or more steps
RECURSIVE UpstreamWithin(_, _, _)
UpstreamWithin(d, frontier, k) ==
    IF k = 0 THEN {}
    ELSE LET next == UNION {d[n] : n \in frontier}
         IN  next \cup UpstreamWithin(d, next, k - 1)

Upstream(d, n) == UpstreamWithin(d, {n}, Cardinality(DOMAIN d))

Acyclic(d) == \A n \in DOMAIN d : n \notin Upstream(d, n)

\* C5: on an acyclic analysis every scheduled node comes strictly after the
\* source node of each link that ends in it, and that source is scheduled.
C5_DependenciesFirst ==
    \A r \in DOMAIN runs :
        Acyclic(deps) =>
            \A i \in DOMAIN analysis.links :
                LET l == analysis.links[i]
                IN  l.to_node \in Range(runs[r]) =>
                        /\ l.from_node \in Range(runs[r])
                        /\ Position(runs[r], l.from_node) < Position(runs[r], l.to_node)

C5_Witness ==
    /\ runs # <<>>
    /\ Acyclic(deps)
    /\ Len(runs[1]) = Len(SchedNodeNames)
    /\ \E i, j \in DOMAIN analysis.links :
          analysis.links[i].to_node = analysis.links[j].from_node

\* C6: two runs of the schedule builder on the same analysis return the same
\* order.
C6_SameScheduleEveryRun ==
    \A i, j \in DOMAIN runs : runs[i] = runs[j]

(***************************************************************************)
(* Registry tables (node_registry.py): the entries of the node types the   *)
(* model uses.                                                             *)
(***************************************************************************)
\* INPUT_MAP.get(cycles_type, {}).get(key, [])
InputMap(cycles_type, key) ==
    CASE cycles_type = "ShaderNodeBsdfPrincipled" /\ key = "Base Color" ->
            <<"Albedo color", "Albedo", "Diffuse">>
      [] cycles_type = "ShaderNodeBsdfPrincipled" /\ key = "Alpha" ->
            <<"Opacity", "Opacity float">>
      [] cycles_type = "ShaderNodeBsdfPrincipled" /\ key = "Normal" ->
            <<"Normal", "Bump", "ShaderNormal">>
      [] cycles_type = "ShaderNodeBsdfPrincipled" /\ key = "Emission Color" ->
            <<"Emission", "Emission color">>
      [] cycles_type = "ShaderNodeBsdfDiffuse" /\ key = "Color" ->
            <<"Diffuse", "Albedo color", "Albedo">>
      [] cycles_type = "ShaderNodeBsdfDiffuse" /\ key = "Normal" ->
            <<"Normal", "Bump">>
      [] cycles_type = "ShaderNodeEmission" /\ key = "Color" ->
            <<"Diffuse", "Emission", "Albedo color">>
      [] cycles_type = "ShaderNodeMixShader" /\ key = "Fac" ->
            <<"Amount", "Factor">>
      [] cycles_type = "ShaderNodeMixShader" /\ key = "Shader" ->
            <<"Material1", "Shader1">>
      [] cycles_type = "ShaderNodeMixShader" /\ key = "Shader_001" ->
            <<"Material2", "Shader2">>
      [] cycles_type = "ShaderNodeNormalMap" /\ key = "Color" ->
            <<"Texture", "Input", "Normal">>
      [] cycles_type = "ShaderNodeBump" /\ key = "Height" ->
            <<"Texture", "Input">>
      [] cycles_type = "ShaderNodeBump" /\ key = "Normal" ->
            <<"Normal", "Input normal">>
      [] cycles_type = "ShaderNodeMixRGB" /\ key = "Color1" ->
            <<"Texture1", "Color1", "Input1">>
      [] cycles_type = "ShaderNodeMixRGB" /\ key = "Color2" ->
            <<"Texture2", "Color2", "Input2">>
      [] cycles_type = "ShaderNodeOutputMaterial" /\ key = "Surface" ->
            <<"Surface", "Shader", "Material">>
      [] cycles_type = "ShaderNodeOutputMaterial" /\ key = "Volume" ->
            <<"Volume", "Medium">>
      [] OTHER -> <<>>

\* OUTPUT_MAP.get(cycles_type, {}).get(key, [])
OutputMap(cycles_type, key) ==
    CASE cycles_type \in {"ShaderNodeBsdfPrincipled", "ShaderNodeBsdfDiffuse"}
            /\ key = "BSDF" -> <<"OutMat", "Material out", "Output">>
      [] cycles_type = "ShaderNodeEmission" /\ key = "Emission" ->
            <<"OutMat", "Material out", "Output">>
      [] cycles_type = "ShaderNodeMixShader" /\ key = "Shader" ->
            <<"OutMat", "Material out", "Output">>
      [] cycles_type = "ShaderNodeTexImage" /\ key = "Color" ->
            <<"OutTex", "Texture out", "Output">>
      [] cycles_type = "ShaderNodeTexImage" /\ key = "Alpha" ->
            <<"Alpha", "OutTex", "Output">>
      [] cycles_type = "ShaderNodeMixRGB" /\ key = "Color" ->
            <<"OutTex", "Texture out", "Output">>
      [] cycles_type \in {"ShaderNodeNormalMap", "ShaderNodeBump"} /\ key = "Normal" ->
            <<"OutTex", "Texture out", "Normal", "Output">>
      [] cycles_type = "ShaderNodeVolumeAbsorption" /\ key = "Volume" ->
            <<"OutMedium", "Medium out", "Output">>
      [] OTHER -> <<>>

(***************************************************************************)
(* Strings: str.lower() and the `in` test on strings.                      *)
(***************************************************************************)
\* the letters str.lower() changes
LowerOf ==
    [ A |-> "a", B |-> "b", C |-> "c", D |-> "d", E |-> "e", F |-> "f",
      G |-> "g", H |-> "h", I |-> "i", J |-> "j", K |-> "k", L |-> "l",
      M |-> "m", N |-> "n", O |-> "o", P |-> "p", Q |-> "q", R |-> "r",
      S |-> "s", T |-> "t", U |-> "u", V |-> "v", W |-> "w", X |-> "x",
      Y |-> "y", Z |-> "z" ]

LowerChar(c) == IF c \in DOMAIN LowerOf THEN LowerOf[c] ELSE c

RECURSIVE Lower(_)
Lower(str) ==
    IF Len(str) = 0 THEN ""
    ELSE LowerChar(SubSeq(str, 1, 1)) \o Lower(SubSeq(str, 2, Len(str)))

\* part in whole
IsSubstring(part, whole) ==
    \E i \in 1..(Len(whole) - Len(part) + 1) :
        SubSeq(whole, i, i + Len(part) - 1) = part

(***************************************************************************)
(* Socket collections: a sequence of socket names; a socket is its         *)
(* position, 0 is None.                                                    *)
(***************************************************************************)
\* `for sock in collection: if <test>: return sock` then `return None`, given
\* the positions that pass the test
First(hits) ==
    IF hits = {} THEN 0
    ELSE CHOOSE i \in hits : \A j \in hits : i <= j

\* collection.get(name)
SocketGet(collection, name) ==
    First({i \in DOMAIN collection : collection[i] = name})

\* _find_socket_case_insensitive
FindSocketCaseInsensitive(collection, name) ==
    LET name_lower == Lower(name)
    IN  First({i \in DOMAIN collection : Lower(collection[i]) = name_lower})

\* _find_socket_substring
FindSocketSubstring(collection, name) ==
    LET name_lower == Lower(name)
    IN  First({i \in DOMAIN collection :
                LET sock_lower == Lower(collection[i])
                IN  \/ IsSubstring(name_lower, sock_lower)
                    \/ IsSubstring(sock_lower, name_lower)})

\* `for cand in candidates: sock = collection.get(cand); if sock: return sock`
FirstCandidate(candidates, collection) ==
    LET found == First({k \in DOMAIN candidates : SocketGet(collection, candidates[k]) # 0})
    IN  IF found = 0 THEN 0 ELSE SocketGet(collection, candidates[found])

\* the same loop with _find_socket_case_insensitive
FirstCandidateCaseInsensitive(candidates, collection) ==
    LET found == First({k \in DOMAIN candidates :
                            FindSocketCaseInsensitive(collection, candidates[k]) # 0})
    IN  IF found = 0 THEN 0
        ELSE FindSocketCaseInsensitive(collection, candidates[found])

\* `sock = ...; if sock: return sock`, then the strategies that follow
OrElse(sock, rest) == IF sock # 0 THEN sock ELSE rest

\* Strategy 2 of both resolvers: the candidates listed under the identifier
ByIdentifier(candidates_of_id, collection, name, identifier) ==
    IF identifier # "" /\ identifier # name
    THEN FirstCandidate(candidates_of_id, collection)
    ELSE 0

\* Strategy 7 of resolve_input_socket
ByIndex(collection, socket_index) ==
    IF 0 <= socket_index /\ socket_index < Len(collection)
    THEN socket_index + 1
    ELSE 0

\* A resolver that falls back to the recorded position before it tries the
\* case-insensitive and substring matches.
ResolveInputSocket_IndexEarly(cycles_type, name, inputs, identifier, socket_index) ==
    LET candidates == InputMap(cycles_type, name)
    IN  OrElse(FirstCandidate(candidates, inputs),
        OrElse(ByIdentifier(InputMap(cycles_type, identifier), inputs, name, identifier),
        OrElse(SocketGet(inputs, name),
        OrElse(ByIndex(inputs, socket_index),
        OrElse(FirstCandidateCaseInsensitive(candidates, inputs),
        OrElse(FindSocketCaseInsensitive(inputs, name),
        FindSocketSubstring(inputs, name)))))))

\* resolve_input_socket
ResolveInputSocket(cycles_type, name, inputs, identifier, socket_index) ==
    LET candidates == InputMap(cycles_type, name)
    IN  OrElse(FirstCandidate(candidates, inputs),
        OrElse(ByIdentifier(InputMap(cycles_type, identifier), inputs, name, identifier),
        OrElse(SocketGet(inputs, name),
        OrElse(FirstCandidateCaseInsensitive(candidates, inputs),
        OrElse(FindSocketCaseInsensitive(inputs, name),
        OrElse(FindSocketSubstring(inputs, name),
        ByIndex(inputs, socket_index)))))))

\* resolve_output_socket
ResolveOutputSocket(cycles_type, name, outputs, identifier) ==
    LET candidates == OutputMap(cycles_type, name)
    IN  OrElse(FirstCandidate(candidates, outputs),
        OrElse(ByIdentifier(OutputMap(cycles_type, identifier), outputs, name, identifier),
        OrElse(SocketGet(outputs, name),
        OrElse(FindSocketCaseInsensitive(outputs, name),
        OrElse(FirstCandidateCaseInsensitive(candidates, outputs),
        OrElse(FindSocketSubstring(outputs, name),
        IF outputs # <<>> THEN 1 ELSE 0))))))

(***************************************************************************)
(* Specification SpecSocket: one resolution call on drawn arguments.       *)
(***************************************************************************)
MaxSockets == 3

\* source sockets: type, display name, identifier, position among the inputs
SourceInputs ==
    { [cycles_type |-> "ShaderNodeBsdfDiffuse", name |-> "Color", identifier |-> "Color", index |-> 0],
      [cycles_type |-> "ShaderNodeBsdfDiffuse", name |-> "Normal", identifier |-> "Normal", index |-> 2],
      [cycles_type |-> "ShaderNodeMixShader", name |-> "Shader", identifier |-> "Shader", index |-> 1],
      [cycles_type |-> "ShaderNodeMixShader", name |-> "Shader", identifier |-> "Shader_001", index |-> 2],
      [cycles_type |-> "ShaderNodeHoldout", name |-> "Color", identifier |-> "Color", index |-> 0] }

SourceOutputs ==
    { [cycles_type |-> "ShaderNodeTexImage", name |-> "Color", identifier |-> "Color", index |-> 0],
      [cycles_type |-> "ShaderNodeTexImage", name |-> "Alpha", identifier |-> "Alpha", index |-> 1] }

\* names a target node may give its sockets
TargetSocketNames ==
    {"Diffuse", "diffuse", "Color", "color", "Base color", "Bump", "Material2", "OutTex"}

SocketInit ==
    /\ \E src \in SourceInputs \cup SourceOutputs,
          sockets \in SeqsUpTo(TargetSocketNames, MaxSockets),
          recorded \in BOOLEAN :
          query = [kind |-> IF src \in SourceInputs THEN "input" ELSE "output",
                   cycles_type |-> src.cycles_type,
                   name |-> src.name,
                   identifier |-> src.identifier,
                   index |-> IF recorded THEN src.index ELSE -1,
                   sockets |-> sockets]
    /\ resolved = PENDING

ResolveInputCall ==
    /\ UNCHANGED restOfSock
    /\ resolved = PENDING
    /\ query.kind = "input"
    /\ resolved' = ResolveInputSocket(query.cycles_type, query.name, query.sockets,
                                      query.identifier, query.index)
    /\ UNCHANGED query

ResolveOutputCall ==
    /\ UNCHANGED restOfSock
    /\ resolved = PENDING
    /\ query.kind = "output"
    /\ resolved' = ResolveOutputSocket(query.cycles_type, query.name, query.sockets,
                                       query.identifier)
    /\ UNCHANGED query

SocketNext ==
    \/ ResolveInputCall
    \/ ResolveOutputCall

InitSocket == SocketInit /\ BatchAtRest /\ SchedAtRest /\ LowerAtRest /\ TransferAtRest /\ FlattenAtRest

SpecSocket == InitSocket /\ [][SocketNext]_vars

(***************************************************************************)
(* Claims on socket resolution (specification SpecSocket)                  *)
(***************************************************************************)
\* the candidates the registry names for the source socket, by display name
\* and by identifier
NamedCandidates(q) ==
    Range(InputMap(q.cycles_type, q.name)) \cup Range(InputMap(q.cycles_type, q.identifier))

MatchesName(q, i) == Lower(q.sockets[i]) = Lower(q.name)

MatchesCandidate(q, i) ==
    \E cand \in NamedCandidates(q) : Lower(q.sockets[i]) = Lower(cand)

\* the case of the claim: an input resolution, no socket of the target node
\* carries a candidate's name, some socket matches the source name up to case
C10_Case ==
    /\ query.kind = "input"
    /\ resolved # PENDING
    /\ \A i \in DOMAIN query.sockets : query.sockets[i] \notin NamedCandidates(query)
    /\ \E i \in DOMAIN query.sockets : MatchesName(query, i)

\* C10: in that case the result is a socket whose name matches the source
\* socket name up to case, whatever the recorded position.
C10_ResultMatchesSourceName ==
    C10_Case =>
        /\ resolved # 0
        /\ MatchesName(query, resolved)

\* C10 (amended): in that case the resolution succeeds by a name strategy,
\* never by the positional fallback: the socket returned matches a registry
\* candidate up to case (strategy 4, tried before strategy 5) or the source
\* name up to case, and it matches the source name whenever no socket matches
\* a candidate up to case.
C10_NameBeforePosition ==
    C10_Case =>
        /\ resolved # 0
        /\ MatchesName(query, resolved) \/ MatchesCandidate(query, resolved)
        /\ (\A i \in DOMAIN query.sockets : ~MatchesCandidate(query, i)) =>
                MatchesName(query, resolved)

\* the recorded position names another socket, which matches nothing
C10_Witness ==
    /\ C10_Case
    /\ query.index >= 0 /\ query.index < Len(query.sockets)
    /\ resolved # query.index + 1
    /\ ~MatchesName(query, query.index + 1)
    /\ ~MatchesCandidate(query, query.index + 1)
    /\ query.sockets[resolved] # query.name

(***************************************************************************)
(* Registry tables used by node lowering (node_registry.py)                *)
(***************************************************************************)
\* NODE_TYPE_MAP.get(cycles_type, [])
NodeTypeMap(cycles_type) ==
    CASE cycles_type = "ShaderNodeBsdfPrincipled" ->
            <<"ShaderNodeOctUniversalMat", "OctaneUniversalMaterial">>
      [] cycles_type = "ShaderNodeBsdfDiffuse" ->
            <<"ShaderNodeOctDiffuseMat", "OctaneDiffuseMaterial">>
      [] cycles_type = "ShaderNodeMixShader" ->
            <<"ShaderNodeOctMixMat", "OctaneMixMaterial">>
      [] cycles_type = "ShaderNodeTexImage" ->
            <<"ShaderNodeOctImageTex", "OctaneImageTexture", "OctaneRGBImage">>
      [] cycles_type \in {"ShaderNodeMixRGB", "ShaderNodeMix"} ->
            <<"ShaderNodeOctMixTex", "OctaneMixTexture">>
      [] cycles_type = "ShaderNodeNormalMap" ->
            <<"ShaderNodeOctNormalMapTex", "OctaneNormalTexture", "OctaneNormalMap",
              "ShaderNodeOctNormalMap", "OctaneImageTexture">>
      [] cycles_type = "ShaderNodeBump" ->
            <<"ShaderNodeOctBumpTex", "OctaneBumpTexture", "OctaneBumpMap",
              "ShaderNodeOctBumpMap">>
      [] cycles_type = "ShaderNodeVolumeAbsorption" ->
            <<"ShaderNodeOctAbsorptionMedium", "OctaneAbsorptionMedium">>
      [] OTHER -> <<>>

PASSTHROUGH_TYPES ==
    {"ShaderNodeSeparateColor", "ShaderNodeSeparateRGB", "ShaderNodeSeparateXYZ",
     "ShaderNodeCombineColor", "ShaderNodeCombineRGB", "ShaderNodeCombineXYZ",
     "ShaderNodeNewGeometry", "ShaderNodeLightPath", "ShaderNodeOutputMaterial",
     "ShaderNodeGroup", "NodeReroute", "NodeFrame", "NodeGroupInput",
     "NodeGroupOutput"}

SKIP_TYPES == {"NodeFrame"}

BLEND_TYPE_MAP ==
    [MULTIPLY |-> <<"ShaderNodeOctMultiplyTex", "OctaneMultiplyTexture">>,
     ADD |-> <<"ShaderNodeOctAddTex", "OctaneAddTexture">>,
     SUBTRACT |-> <<"ShaderNodeOctSubtractTex", "OctaneSubtractTexture">>,
     SCREEN |-> <<"ShaderNodeOctMixTex", "OctaneMixTexture">>,
     OVERLAY |-> <<"ShaderNodeOctMixTex", "OctaneMixTexture">>,
     DIFFERENCE |-> <<"ShaderNodeOctSubtractTex", "OctaneSubtractTexture">>]

UNSUPPORTED == "[UNSUPPORTED]"

\* the two node types create_nodes tries for a placeholder, in order
PlaceholderTypes == <<"ShaderNodeOctRGBColorTex", "OctaneRGBColor">>

(***************************************************************************)
(* The host: which node types nodes.new accepts, and the sockets a node of *)
(* each type comes with.                                                   *)
(***************************************************************************)
\* the node types of the plugin generation the model runs against
HostTypes ==
    {"ShaderNodeOutputMaterial", "ShaderNodeOctUniversalMat", "ShaderNodeOctDiffuseMat",
     "ShaderNodeOctMixMat", "ShaderNodeOctImageTex", "ShaderNodeOctMixTex",
     "ShaderNodeOctMultiplyTex", "ShaderNodeOctNormalMapTex", "ShaderNodeOctBumpTex",
     "ShaderNodeOctAbsorptionMedium", "ShaderNodeOctRGBColorTex", "OctaneRGBColor",
     "ShaderNodeOctTextureEmission"}

\* node.inputs of a fresh node, by name
HostInputs(h, bl_idname) ==
    CASE bl_idname = "ShaderNodeOutputMaterial" -> <<"Surface", "Volume", "Displacement">>
      [] bl_idname = "ShaderNodeOctUniversalMat" ->
            <<"Albedo color", "Opacity", "Normal", "Emission", "Medium">>
      [] bl_idname = "ShaderNodeOctDiffuseMat" ->
            <<"Diffuse", "Bump", "Normal", "Opacity", "Medium">>
      [] bl_idname = "ShaderNodeOctMixMat" -> h.mix_inputs
      [] bl_idname = "ShaderNodeOctImageTex" -> <<"Power", "Gamma">>
      [] bl_idname = "ShaderNodeOctMixTex" -> <<"Amount", "Texture1", "Texture2">>
      [] bl_idname = "ShaderNodeOctMultiplyTex" -> <<"Texture1", "Texture2">>
      [] bl_idname = "ShaderNodeOctNormalMapTex" -> <<"Texture", "Strength">>
      [] bl_idname = "ShaderNodeOctBumpTex" -> <<"Texture", "Height">>
      [] bl_idname = "ShaderNodeOctAbsorptionMedium" -> <<"Absorption", "Density">>
      [] bl_idname = "ShaderNodeOctTextureEmission" -> <<"Texture", "Power">>
      [] OTHER -> <<>>

\* node.outputs of a fresh node, by name
HostOutputs(bl_idname) ==
    CASE bl_idname \in {"ShaderNodeOctUniversalMat", "ShaderNodeOctDiffuseMat",
                        "ShaderNodeOctMixMat"} -> <<"OutMat">>
      [] bl_idname \in {"ShaderNodeOctImageTex", "ShaderNodeOctMixTex",
                        "ShaderNodeOctMultiplyTex", "ShaderNodeOctNormalMapTex",
                        "ShaderNodeOctBumpTex", "ShaderNodeOctRGBColorTex",
                        "OctaneRGBColor"} -> <<"OutTex">>
      [] bl_idname = "ShaderNodeOctAbsorptionMedium" -> <<"OutMedium">>
      [] bl_idname = "ShaderNodeOctTextureEmission" -> <<"OutEmission">>
      [] OTHER -> <<>>

\* the input names a mix material node may come with
MixInputLayouts ==
    { <<"Amount", "Material1", "Material2">>,
      <<"Amount", "Material 1", "Material 2">>,
      <<"Amount", "First material", "Second material">>,
      <<"First material", "Second material">> }

\* the node types a host may lack
HostRejections ==
    { {},
      {"ShaderNodeOctNormalMapTex", "ShaderNodeOctBumpTex"},
      {"ShaderNodeOctNormalMapTex", "ShaderNodeOctBumpTex", "ShaderNodeOctRGBColorTex"},
      {"ShaderNodeOctNormalMapTex", "ShaderNodeOctRGBColorTex", "OctaneRGBColor"},
      {"ShaderNodeOctMultiplyTex"},
      {"ShaderNodeOctMultiplyTex", "ShaderNodeOctMixTex"},
      {"ShaderNodeOctTextureEmission"},
      {"ShaderNodeOctUniversalMat"} }

\* target_tree.nodes.new(type=...) raises for a type the host lacks
NodesNewRaises(h, bl_idname) == bl_idname \notin h.accepts

(***************************************************************************)
(* The target tree                                                         *)
(***************************************************************************)
\* a node as nodes.new leaves it, at the origin of the editor
TargetNode(id, bl_idname, label) ==
    [id |-> id, bl_idname |-> bl_idname, label |-> label, location |-> <<0, 0>>]

\* node.location = location
Placed(node, location) == [node EXCEPT !.location = location]

\* the node the copied material keeps after _clear_tree_except_output
KeptOutput == TargetNode("Material Output", "ShaderNodeOutputMaterial", "")

TreeIds(t) == {t[i].id : i \in DOMAIN t}

\* the node object behind a reference held by the code, removed or not
NodeOf(st, id) ==
    CHOOSE n \in Range(st.tree) \cup st.removed : n.id = id

\* node_map.get(name)
MapGet(m, name) == IF name \in DOMAIN m THEN m[name] ELSE NONE

\* node_map[name] = node
MapSet(m, name, id) == [k \in DOMAIN m \cup {name} |-> IF k = name THEN id ELSE m[k]]

\* del node_map[name]
MapDel(m, name) == [k \in DOMAIN m \ {name} |-> m[k]]

\* the first candidate nodes.new accepts, NONE when it raises for all
FirstAccepted(h, candidates) ==
    LET k == First({i \in DOMAIN candidates : ~NodesNewRaises(h, candidates[i])})
    IN  IF k = 0 THEN NONE ELSE candidates[k]

\* create_octane_node: the type of the node created, NONE for None
CreateOctaneNode(h, cycles_type) == FirstAccepted(h, NodeTypeMap(cycles_type))

(***************************************************************************)
(* GraphEngine.create_nodes (graph_engine.py)                              *)
(***************************************************************************)
\* the node created for `info` joins the tree, is placed where the source
\* node is, and joins the map
Register(st, info, bl_idname, label) ==
    [st EXCEPT !.tree = Append(@, Placed(TargetNode(info.name, bl_idname, label),
                                         info.location)),
               !.node_map = MapSet(@, info.name, info.name)]

\* the branch of an output node: the first output node of the tree, or a new one
LowerOutput(st, info) ==
    LET found == First({i \in DOMAIN st.tree :
                            st.tree[i].bl_idname = "ShaderNodeOutputMaterial"})
    IN  IF found # 0
        THEN [st EXCEPT !.tree[found] = Placed(@, info.location),
                        !.node_map = MapSet(@, info.name, st.tree[found].id)]
        ELSE Register(st, info, "ShaderNodeOutputMaterial", "")

\* a blend branch that goes to the generic candidates before the special ones
LowerBlend_GenericFirst(h, st, info) ==
    LET generic == CreateOctaneNode(h, info.bl_idname)
        new_node == IF generic # NONE THEN generic
                    ELSE FirstAccepted(h, BLEND_TYPE_MAP[info.blend_type])
    IN  IF new_node # NONE THEN Register(st, info, new_node, info.label)
        ELSE st

\* the branch of a MixRGB / Mix node whose blend type has its own candidates
LowerBlend(h, st, info) ==
    LET special == FirstAccepted(h, BLEND_TYPE_MAP[info.blend_type])
        new_node == IF special # NONE THEN special
                    ELSE CreateOctaneNode(h, info.bl_idname)
    IN  IF new_node # NONE THEN Register(st, info, new_node, info.label)
        ELSE st

\* the standard branch, placeholder included
LowerStandard(h, st, info) ==
    LET new_node == CreateOctaneNode(h, info.bl_idname)
        fallback == FirstAccepted(h, PlaceholderTypes)
    IN  IF new_node # NONE THEN Register(st, info, new_node, info.label)
        ELSE IF fallback # NONE
             THEN Register(st, info, fallback, UNSUPPORTED \o " " \o info.label)
             ELSE st

\* one turn of the loop of create_nodes
LowerNode(h, st, info) ==
    IF info.bl_idname \in SKIP_TYPES THEN st
    ELSE IF info.bl_idname \in PASSTHROUGH_TYPES
         THEN IF info.bl_idname = "ShaderNodeOutputMaterial"
              THEN LowerOutput(st, info)
              ELSE st
    ELSE IF /\ info.bl_idname \in {"ShaderNodeMixRGB", "ShaderNodeMix"}
            /\ info.blend_type \in DOMAIN BLEND_TYPE_MAP
         THEN LowerBlend(h, st, info)
    ELSE LowerStandard(h, st, info)

RECURSIVE CreateNodesLoop(_, _, _, _)
CreateNodesLoop(h, a, st, schedule) ==
    IF schedule = <<>> THEN st
    ELSE IF ~HasNode(a, Head(schedule))
         THEN CreateNodesLoop(h, a, st, Tail(schedule))
         ELSE CreateNodesLoop(h, a, LowerNode(h, st, NodeGet(a, Head(schedule))),
                              Tail(schedule))

(***************************************************************************)
(* Links of the target tree. A socket is its position among the inputs or  *)
(* outputs of its node.                                                    *)
(***************************************************************************)
NodeInputs(h, st, id) == HostInputs(h, NodeOf(st, id).bl_idname)
NodeOutputs(st, id) == HostOutputs(NodeOf(st, id).bl_idname)

MapValues(m) == {m[k] : k \in DOMAIN m}

\* target_tree.links.new(from_socket, to_socket): an input holds one link, the
\* new link replaces the one it had. `created` records the call.
LinksNew(st, from_node, from_socket, to_node, to_socket, by) ==
    [st EXCEPT
        !.links = {l \in @ : ~(l.to_node = to_node /\ l.to_socket = to_socket)}
                    \cup {[from_node |-> from_node, from_socket |-> from_socket,
                           to_node |-> to_node, to_socket |-> to_socket]},
        !.created = @ \cup {[from_node |-> from_node, from_socket |-> from_socket,
                             to_node |-> to_node, to_socket |-> to_socket, by |-> by,
                             from_in_tree |-> from_node \in TreeIds(st.tree),
                             to_in_tree |-> to_node \in TreeIds(st.tree),
                             from_in_map |-> from_node \in MapValues(st.node_map),
                             to_in_map |-> to_node \in MapValues(st.node_map)]}]

\* target_tree.links.new raises for a link into an input the host refuses to
\* link.  The hosts of the model refuse at most the Diffuse input, which only
\* _rebuild_links links into; the other callers of links.new never meet it.
LinksNewRaises(h, st, to_node, to_socket) ==
    NodeInputs(h, st, to_node)[to_socket] \in h.refuses

\* target_tree.links.remove(link) for every link that touches the node
Unlink(st, id) ==
    [st EXCEPT !.links = {l \in @ : l.from_node # id /\ l.to_node # id}]

\* the from_socket of no link
Unfed == [node |-> NONE, socket |-> 0]

\* `socket.links[0].from_socket if socket.links else None`
Producer(ls, to_node, to_socket) ==
    IF \E l \in ls : l.to_node = to_node /\ l.to_socket = to_socket
    THEN LET l == CHOOSE l \in ls : l.to_node = to_node /\ l.to_socket = to_socket
         IN  [node |-> l.from_node, socket |-> l.from_socket]
    ELSE Unfed

\* `outputs[0] if outputs else None`, and the same on inputs
FirstSocket(collection) == IF collection # <<>> THEN 1 ELSE 0

(***************************************************************************)
(* _rebuild_links (conversion_engine.py)                                   *)
(***************************************************************************)
RebuildLink(h, a, st, link_info) ==
    LET oct_from == MapGet(st.node_map, link_info.from_node)
        oct_to == MapGet(st.node_map, link_info.to_node)
        from_info == NodeGet(a, link_info.from_node)
        to_info == NodeGet(a, link_info.to_node)
    IN  IF oct_from = NONE \/ oct_to = NONE THEN st
        ELSE IF ~HasNode(a, link_info.from_node) \/ ~HasNode(a, link_info.to_node) THEN st
        ELSE LET out_socket == ResolveOutputSocket(from_info.bl_idname,
                                    link_info.from_socket, NodeOutputs(st, oct_from),
                                    link_info.from_socket_identifier)
                 in_socket == ResolveInputSocket(to_info.bl_idname,
                                    link_info.to_socket, NodeInputs(h, st, oct_to),
                                    link_info.to_socket_identifier,
                                    link_info.to_socket_index)
             IN  IF out_socket = 0 \/ in_socket = 0 THEN st
                 ELSE IF LinksNewRaises(h, st, oct_to, in_socket) THEN st
                 ELSE LinksNew(st, oct_from, out_socket, oct_to, in_socket, "rebuild_links")

\* A loop that gives up at the first link it has to drop.
RECURSIVE RebuildLinks_StopsAtDrop(_, _, _, _)
RebuildLinks_StopsAtDrop(h, a, st, todo) ==
    IF todo = <<>> THEN st
    ELSE IF RebuildLink(h, a, st, Head(todo)) = st THEN st
    ELSE RebuildLinks_StopsAtDrop(h, a, RebuildLink(h, a, st, Head(todo)), Tail(todo))

RECURSIVE RebuildLinks(_, _, _, _)
RebuildLinks(h, a, st, todo) ==
    IF todo = <<>> THEN st
    ELSE RebuildLinks(h, a, RebuildLink(h, a, st, Head(todo)), Tail(todo))

(***************************************************************************)
(* _handle_normal_map_fallback (conversion_engine.py)                      *)
(***************************************************************************)
\* A removal that leaves the entry of the node in the node map.
RemoveNode_KeepsMapEntry(st, id, node_name) ==
    [st EXCEPT !.tree = SelectSeq(@, LAMBDA n : n.id # id),
               !.removed = @ \cup {NodeOf(st, id)}]

\* target_tree.nodes.remove(oct_node); del node_map[node_name]
RemoveNode(st, id, node_name) ==
    [st EXCEPT !.tree = SelectSeq(@, LAMBDA n : n.id # id),
               !.removed = @ \cup {NodeOf(st, id)},
               !.node_map = MapDel(@, node_name)]

\* A rewiring that takes the links of the fallback node away and adds none.
Rewire_OnlyUnlinks(h, a, st, oct_node, source_oct, dest_oct, dest_socket_name) ==
    Unlink(st, oct_node)

\* the direct connection from the source texture to the destination material
Rewire(h, a, st, oct_node, source_oct, dest_oct, dest_socket_name) ==
    LET out_sock == FirstSocket(NodeOutputs(st, source_oct))
        inputs == NodeInputs(h, st, dest_oct)
        by_name == FirstCandidate(<<"Normal", "Bump", "ShaderNormal", dest_socket_name>>,
                                  inputs)
        in_sock == IF by_name # 0 THEN by_name
                   ELSE IF dest_socket_name # ""
                        THEN FindSocketCaseInsensitive(inputs, dest_socket_name)
                        ELSE 0
    IN  IF out_sock # 0 /\ in_sock # 0
        THEN LinksNew(Unlink(st, oct_node), source_oct, out_sock, dest_oct, in_sock,
                      "normal_map_fallback")
        ELSE st

\* one turn of the loop over analysis.nodes
FallbackNode(h, a, st, info) ==
    LET oct_node == MapGet(st.node_map, info.name)
        from_k == First({i \in DOMAIN a.links :
                            /\ a.links[i].to_node = info.name
                            /\ MapGet(st.node_map, a.links[i].from_node) # NONE})
        to_k == First({i \in DOMAIN a.links :
                            /\ a.links[i].from_node = info.name
                            /\ MapGet(st.node_map, a.links[i].to_node) # NONE})
        rewired == IF from_k # 0 /\ to_k # 0
                   THEN Rewire(h, a, st, oct_node,
                               MapGet(st.node_map, a.links[from_k].from_node),
                               MapGet(st.node_map, a.links[to_k].to_node),
                               a.links[to_k].to_socket)
                   ELSE st
    IN  IF info.bl_idname \notin {"ShaderNodeNormalMap", "ShaderNodeBump"} THEN st
        ELSE IF oct_node = NONE THEN st
        ELSE IF ~IsSubstring(UNSUPPORTED, NodeOf(st, oct_node).label) THEN st
        ELSE RemoveNode(Unlink(rewired, oct_node), oct_node, info.name)

RECURSIVE HandleNormalMapFallback(_, _, _, _)
HandleNormalMapFallback(h, a, st, todo) ==
    IF todo = <<>> THEN st
    ELSE HandleNormalMapFallback(h, a, FallbackNode(h, a, st, Head(todo)), Tail(todo))

(***************************************************************************)
(* _fix_mix_shader_links (conversion_engine.py)                            *)
(***************************************************************************)
\* the two material inputs of a mix material node, <<0, 0>> when not found
MixSlots(inputs) ==
    LET mat1_sock == FirstCandidate(<<"Material1", "Shader1", "Material 1">>, inputs)
        mat2_sock == FirstCandidate(<<"Material2", "Shader2", "Material 2">>, inputs)
    IN  IF mat1_sock = 0 \/ mat2_sock = 0
        THEN IF Len(inputs) >= 3 THEN <<2, 3>> ELSE <<0, 0>>
        ELSE <<mat1_sock, mat2_sock>>

\* A re-link that puts each producer back into the slot it came from.
SwapMixSlots_SameSlots(st, oct_node, pair) ==
    LET mat1_from == Producer(st.links, oct_node, pair[1])
        mat2_from == Producer(st.links, oct_node, pair[2])
        cleared == [st EXCEPT !.links = {l \in @ : ~(l.to_node = oct_node
                                                      /\ l.to_socket \in Range(pair))}]
        first == IF mat1_from = Unfed THEN cleared
                 ELSE LinksNew(cleared, mat1_from.node, mat1_from.socket, oct_node,
                               pair[1], "fix_mix_shader_links")
    IN  IF mat1_from = Unfed /\ mat2_from = Unfed THEN st
        ELSE IF mat2_from = Unfed THEN first
        ELSE LinksNew(first, mat2_from.node, mat2_from.socket, oct_node, pair[2],
                      "fix_mix_shader_links")

\* store the connections, remove the links, link each producer to the other slot
SwapMixSlots(st, oct_node, pair) ==
    LET mat1_from == Producer(st.links, oct_node, pair[1])
        mat2_from == Producer(st.links, oct_node, pair[2])
        cleared == [st EXCEPT !.links = {l \in @ : ~(l.to_node = oct_node
                                                      /\ l.to_socket \in Range(pair))}]
        first == IF mat1_from = Unfed THEN cleared
                 ELSE LinksNew(cleared, mat1_from.node, mat1_from.socket, oct_node,
                               pair[2], "fix_mix_shader_links")
    IN  IF mat1_from = Unfed /\ mat2_from = Unfed THEN st
        ELSE IF mat2_from = Unfed THEN first
        ELSE LinksNew(first, mat2_from.node, mat2_from.socket, oct_node, pair[1],
                      "fix_mix_shader_links")

\* one turn of the loop over analysis.nodes
FixMixNode(h, st, info) ==
    LET oct_node == MapGet(st.node_map, info.name)
    IN  IF info.bl_idname # "ShaderNodeMixShader" THEN st
        ELSE IF oct_node = NONE THEN st
        ELSE IF MixSlots(NodeInputs(h, st, oct_node)) = <<0, 0>> THEN st
        ELSE SwapMixSlots(st, oct_node, MixSlots(NodeInputs(h, st, oct_node)))

RECURSIVE FixMixShaderLinks(_, _, _)
FixMixShaderLinks(h, st, todo) ==
    IF todo = <<>> THEN st
    ELSE FixMixShaderLinks(h, FixMixNode(h, st, Head(todo)), Tail(todo))

(***************************************************************************)
(* _handle_alpha (conversion_engine.py)                                    *)
(***************************************************************************)
AlphaLink(h, a, st, link_info) ==
    LET from_info == NodeGet(a, link_info.from_node)
        to_info == NodeGet(a, link_info.to_node)
        oct_from == MapGet(st.node_map, link_info.from_node)
        oct_to == MapGet(st.node_map, link_info.to_node)
        opacity_sock == FirstCandidate(<<"Opacity", "Opacity float", "Alpha">>,
                                       NodeInputs(h, st, oct_to))
        outputs == NodeOutputs(st, oct_from)
        alpha_out == OrElse(SocketGet(outputs, "Alpha"),
                     OrElse(SocketGet(outputs, "OutTex"),
                     FirstSocket(outputs)))
    IN  IF ~HasNode(a, link_info.from_node) \/ ~HasNode(a, link_info.to_node) THEN st
        ELSE IF ~(from_info.bl_idname = "ShaderNodeTexImage"
                  /\ link_info.from_socket = "Alpha") THEN st
        ELSE IF oct_from = NONE \/ oct_to = NONE THEN st
        ELSE IF opacity_sock = 0 THEN st
        ELSE IF alpha_out = 0 THEN st
        ELSE LinksNew(st, oct_from, alpha_out, oct_to, opacity_sock, "handle_alpha")

RECURSIVE AlphaLinks(_, _, _, _)
AlphaLinks(h, a, st, todo) ==
    IF todo = <<>> THEN st
    ELSE AlphaLinks(h, a, AlphaLink(h, a, st, Head(todo)), Tail(todo))

HandleAlpha(h, a, st) ==
    IF ~a.has_alpha THEN st ELSE AlphaLinks(h, a, st, a.links)

(***************************************************************************)
(* _handle_emission_node_insertion (conversion_engine.py)                  *)
(***************************************************************************)
EMISSION_NODE_CANDIDATES ==
    <<"ShaderNodeOctTextureEmission", "OctaneTextureEmission",
      "ShaderNodeOctBlackBodyEmission", "OctaneBlackBodyEmission">>

\* the name the host gives the emission node made for a material node
EmissionNodeId(node_name) == "Emission " \o node_name

\* between the source and the material, below the material
EmissionLocation(st, source_node, oct_mat) ==
    LET s == NodeOf(st, source_node).location
        m == NodeOf(st, oct_mat).location
    IN  <<(s[1] + m[1]) \div 2, m[2] - 200>>

\* An insertion that wires the emission node to the material only.
InsertEmissionNode_Unfed(h, st, node_name, oct_mat, emission_sock, bl_idname) ==
    LET source_out == Producer(st.links, oct_mat, emission_sock)
        id == EmissionNodeId(node_name)
        added == [st EXCEPT
                    !.tree = Append(@, Placed(TargetNode(id, bl_idname, "Emission"),
                                              EmissionLocation(st, source_out.node, oct_mat))),
                    !.links = {l \in @ : ~(l.to_node = oct_mat
                                           /\ l.to_socket = emission_sock)}]
        emission_out == OrElse(FirstCandidate(<<"OutEmission", "Emission out", "Output",
                                                "Emission">>, HostOutputs(bl_idname)),
                               FirstSocket(HostOutputs(bl_idname)))
    IN  IF emission_out = 0 THEN added
        ELSE LinksNew(added, id, emission_out, oct_mat, emission_sock,
                      "emission_node_insertion")

\* remove the direct link, add the emission node, wire it in
InsertEmissionNode(h, st, node_name, oct_mat, emission_sock, bl_idname) ==
    LET source_out == Producer(st.links, oct_mat, emission_sock)
        id == EmissionNodeId(node_name)
        added == [st EXCEPT
                    !.tree = Append(@, Placed(TargetNode(id, bl_idname, "Emission"),
                                              EmissionLocation(st, source_out.node, oct_mat))),
                    !.links = {l \in @ : ~(l.to_node = oct_mat
                                           /\ l.to_socket = emission_sock)}]
        tex_input == OrElse(FirstCandidate(<<"Texture", "Input", "Color", "Emission">>,
                                           HostInputs(h, bl_idname)),
                            FirstSocket(HostInputs(h, bl_idname)))
        emission_out == OrElse(FirstCandidate(<<"OutEmission", "Emission out", "Output",
                                                "Emission">>, HostOutputs(bl_idname)),
                               FirstSocket(HostOutputs(bl_idname)))
        fed == IF tex_input = 0 THEN added
               ELSE LinksNew(added, source_out.node, source_out.socket, id, tex_input,
                             "emission_node_insertion")
    IN  IF emission_out = 0 THEN fed
        ELSE LinksNew(fed, id, emission_out, oct_mat, emission_sock,
                      "emission_node_insertion")

\* one turn of the loop over analysis.nodes
EmissionNode(h, st, info) ==
    LET oct_mat == MapGet(st.node_map, info.name)
        emission_sock == FirstCandidate(<<"Emission", "Emission color", "Emission Color">>,
                                        NodeInputs(h, st, oct_mat))
        bl_idname == FirstAccepted(h, EMISSION_NODE_CANDIDATES)
    IN  IF info.bl_idname \notin {"ShaderNodeBsdfPrincipled", "ShaderNodeEmission"} THEN st
        ELSE IF oct_mat = NONE THEN st
        ELSE IF emission_sock = 0 THEN st
        ELSE IF Producer(st.links, oct_mat, emission_sock) = Unfed THEN st
        ELSE IF bl_idname = NONE THEN st
        ELSE InsertEmissionNode(h, st, info.name, oct_mat, emission_sock, bl_idname)

RECURSIVE EmissionNodes(_, _, _)
EmissionNodes(h, st, todo) ==
    IF todo = <<>> THEN st
    ELSE EmissionNodes(h, EmissionNode(h, st, Head(todo)), Tail(todo))

HandleEmissionNodeInsertion(h, a, st) ==
    IF ~a.has_emission THEN st ELSE EmissionNodes(h, st, a.nodes)

(***************************************************************************)
(* handle_volumetrics, _connect_volume_to_output (volumetric_handler.py)   *)
(***************************************************************************)
MaterialTypes ==
    {"ShaderNodeOctUniversalMat", "OctaneUniversalMaterial",
     "ShaderNodeOctSpecularMat", "OctaneSpecularMaterial",
     "ShaderNodeOctGlossyMat", "OctaneGlossyMaterial",
     "ShaderNodeOctDiffuseMat", "OctaneDiffuseMaterial"}

\* one turn of the loop that connects each medium node to the material node
ConnectMedium(st, info, material_node, medium_input) ==
    LET oct_node == MapGet(st.node_map, info.name)
        outputs == NodeOutputs(st, oct_node)
        medium_output == OrElse(FirstCandidate(<<"OutMedium", "Medium out", "Output",
                                                 "Medium">>, outputs),
                                FirstSocket(outputs))
    IN  IF info.bl_idname \notin {"ShaderNodeVolumeAbsorption", "ShaderNodeVolumeScatter"}
        THEN st
        ELSE IF oct_node = NONE THEN st
        ELSE IF medium_output = 0 THEN st
        ELSE LinksNew(st, oct_node, medium_output, material_node, medium_input,
                      "handle_volumetrics")

RECURSIVE ConnectMedia(_, _, _, _)
ConnectMedia(st, todo, material_node, medium_input) ==
    IF todo = <<>> THEN st
    ELSE ConnectMedia(ConnectMedium(st, Head(todo), material_node, medium_input),
                      Tail(todo), material_node, medium_input)

\* one turn of the loop of _connect_volume_to_output
ConnectVolumeLink(h, a, st, link_info) ==
    LET to_info == NodeGet(a, link_info.to_node)
        oct_from == MapGet(st.node_map, link_info.from_node)
        oct_to == MapGet(st.node_map, link_info.to_node)
        vol_input == FirstCandidate(<<"Volume", "Medium">>, NodeInputs(h, st, oct_to))
        outputs == NodeOutputs(st, oct_from)
        medium_out == OrElse(FirstCandidate(<<"OutMedium", "Medium out", "Output">>, outputs),
                             FirstSocket(outputs))
    IN  IF ~HasNode(a, link_info.to_node) THEN st
        ELSE IF to_info.bl_idname # "ShaderNodeOutputMaterial" THEN st
        ELSE IF link_info.to_socket # "Volume" THEN st
        ELSE IF ~HasNode(a, link_info.from_node) THEN st
        ELSE IF oct_from = NONE \/ oct_to = NONE THEN st
        ELSE IF vol_input = 0 THEN st
        ELSE IF medium_out = 0 THEN st
        ELSE LinksNew(st, oct_from, medium_out, oct_to, vol_input, "handle_volumetrics")

RECURSIVE ConnectVolumeToOutput(_, _, _, _)
ConnectVolumeToOutput(h, a, st, todo) ==
    IF todo = <<>> THEN st
    ELSE ConnectVolumeToOutput(h, a, ConnectVolumeLink(h, a, st, Head(todo)), Tail(todo))

HandleVolumetrics(h, a, st) ==
    LET mat_k == First({i \in DOMAIN st.tree : st.tree[i].bl_idname \in MaterialTypes})
        material_node == st.tree[mat_k].id
        medium_input == FirstCandidate(<<"Medium", "Transmission medium", "Medium input">>,
                                       NodeInputs(h, st, material_node))
    IN  IF ~a.has_volume THEN st
        ELSE IF mat_k = 0 THEN st
        ELSE IF medium_input = 0 THEN st
        ELSE ConnectVolumeToOutput(h, a,
                ConnectMedia(st, a.nodes, material_node, medium_input), a.links)

(***************************************************************************)
(* Specification SpecLower: a material is lowered on a host, stage by      *)
(* stage, in the order convert_material calls the stages.                  *)
(***************************************************************************)
MaxLowerLinks == 4

\* the nodes a source tree may hold, in the order of the tree
CatalogNodes(blend_type) ==
    << NodeInfo("Tex", "ShaderNodeTexImage", "Image", "MIX"),
       NodeInfo("Nrm", "ShaderNodeNormalMap", "Normal Map", "MIX"),
       NodeInfo("Bump", "ShaderNodeBump", "Bump", "MIX"),
       NodeInfo("Blend", "ShaderNodeMixRGB", "Blend", blend_type),
       NodeInfo("Principled", "ShaderNodeBsdfPrincipled", "Principled", "MIX"),
       NodeInfo("Diffuse", "ShaderNodeBsdfDiffuse", "Diffuse", "MIX"),
       NodeInfo("Mix", "ShaderNodeMixShader", "Mix Shader", "MIX"),
       NodeInfo("Vol", "ShaderNodeVolumeAbsorption", "Absorption", "MIX"),
       NodeInfo("Out", "ShaderNodeOutputMaterial", "Material Output", "MIX") >>

\* the links a source tree may hold, in the order of the tree
CatalogLinks ==
    << LinkInfo("Tex", "Color", "Color", "Nrm", "Color", "Color", 1),
       LinkInfo("Nrm", "Normal", "Normal", "Bump", "Normal", "Normal", 3),
       LinkInfo("Nrm", "Normal", "Normal", "Principled", "Normal", "Normal", 5),
       LinkInfo("Bump", "Normal", "Normal", "Principled", "Normal", "Normal", 5),
       LinkInfo("Tex", "Alpha", "Alpha", "Principled", "Alpha", "Alpha", 4),
       LinkInfo("Tex", "Color", "Color", "Principled", "Emission Color", "Emission Color", 27),
       LinkInfo("Blend", "Color", "Color", "Diffuse", "Color", "Color", 0),
       LinkInfo("Principled", "BSDF", "BSDF", "Mix", "Shader", "Shader", 1),
       LinkInfo("Diffuse", "BSDF", "BSDF", "Mix", "Shader", "Shader_001", 2),
       LinkInfo("Principled", "BSDF", "BSDF", "Out", "Surface", "Surface", 0),
       LinkInfo("Mix", "Shader", "Shader", "Out", "Surface", "Surface", 0),
       LinkInfo("Vol", "Volume", "Volume", "Out", "Volume", "Volume", 1) >>

BlendTypes == {"MIX", "MULTIPLY"}

Analyze_NoAlpha(chosen, blend_type, emissive) ==
    LET ls == SelectSeq(CatalogLinks, LAMBDA l : l \in chosen)
        touched == {l.from_node : l \in chosen} \cup {l.to_node : l \in chosen}
        ns == SelectSeq(CatalogNodes(blend_type),
                        LAMBDA n : n.name \in touched
                                   \/ n.bl_idname = "ShaderNodeOutputMaterial")
    IN  [nodes |-> ns,
         links |-> ls,
         has_alpha |-> FALSE,
         has_emission |-> \E i \in DOMAIN ns :
                            /\ ns[i].bl_idname = "ShaderNodeBsdfPrincipled"
                            /\ emissive,
         has_volume |-> \E i \in DOMAIN ns :
                            ns[i].bl_idname = "ShaderNodeVolumeAbsorption"]

\* analyze_tree on the tree that holds the chosen links, the nodes they touch
\* and the output node; `emissive`: a Principled node has an emission colour
Analyze(chosen, blend_type, emissive) ==
    LET ls == SelectSeq(CatalogLinks, LAMBDA l : l \in chosen)
        touched == {l.from_node : l \in chosen} \cup {l.to_node : l \in chosen}
        ns == SelectSeq(CatalogNodes(blend_type),
                        LAMBDA n : n.name \in touched
                                   \/ n.bl_idname = "ShaderNodeOutputMaterial")
    IN  [nodes |-> ns,
         links |-> ls,
         has_alpha |-> \E i \in DOMAIN ls :
                            /\ NodeGet([nodes |-> ns], ls[i].from_node).bl_idname
                                    = "ShaderNodeTexImage"
                            /\ ls[i].from_socket = "Alpha",
         has_emission |-> \E i \in DOMAIN ns :
                            /\ ns[i].bl_idname = "ShaderNodeBsdfPrincipled"
                            /\ emissive,
         has_volume |-> \E i \in DOMAIN ns :
                            ns[i].bl_idname = "ShaderNodeVolumeAbsorption"]

LowerSources ==
    {Analyze(chosen, blend_type, emissive) :
        chosen \in {c \in SUBSET Range(CatalogLinks) : Cardinality(c) <= MaxLowerLinks},
        blend_type \in BlendTypes,
        emissive \in BOOLEAN}

\* a host with every node type and one of the mix layouts, a host that lacks
\* some node types and has the first mix layout, or a host with every node
\* type that refuses links into the Diffuse input
Hosts ==
    {[accepts |-> HostTypes, mix_inputs |-> layout, refuses |-> {}] :
            layout \in MixInputLayouts}
        \cup {[accepts |-> HostTypes \ rejected,
                mix_inputs |-> <<"Amount", "Material1", "Material2">>,
                refuses |-> {}] : rejected \in HostRejections}
        \cup {[accepts |-> HostTypes,
                mix_inputs |-> <<"Amount", "Material1", "Material2">>,
                refuses |-> {"Diffuse"}]}

LowerInit ==
    /\ source \in LowerSources
    /\ host \in Hosts
    /\ step = "create_nodes"
    /\ tree = <<KeptOutput>>
    /\ removed = {}
    /\ node_map = EmptyMap
    /\ links = {}
    /\ created = {}

\* the target tree and the node map as the stages pass them on
Current ==
    [tree |-> tree, removed |-> removed, node_map |-> node_map,
     links |-> links, created |-> created]

\* a stage has run: what it leaves, and the stage that runs next
Leaves(st, next_step) ==
    /\ tree' = st.tree
    /\ removed' = st.removed
    /\ node_map' = st.node_map
    /\ links' = st.links
    /\ created' = st.created
    /\ step' = next_step
    /\ UNCHANGED <<source, host>>

\* node_map = GraphEngine(analysis).create_nodes(new_mat.node_tree)
CreateNodes ==
    /\ UNCHANGED restOfLower
    /\ step = "create_nodes"
    /\ \E ord \in IterationOrders(BuildDependencyGraph(source)) :
          Leaves(CreateNodesLoop(host, source, Current, ComputeSchedule(source, ord)),
                 "rebuild_links")

RebuildLinksStage ==
    /\ UNCHANGED restOfLower
    /\ step = "rebuild_links"
    /\ Leaves(RebuildLinks(host, source, Current, source.links), "normal_map_fallback")

NormalMapFallbackStage ==
    /\ UNCHANGED restOfLower
    /\ step = "normal_map_fallback"
    /\ Leaves(HandleNormalMapFallback(host, source, Current, source.nodes),
              "fix_mix_shader_links")

FixMixShaderLinksStage ==
    /\ UNCHANGED restOfLower
    /\ step = "fix_mix_shader_links"
    /\ Leaves(FixMixShaderLinks(host, Current, source.nodes), "handle_alpha")

HandleAlphaStage ==
    /\ UNCHANGED restOfLower
    /\ step = "handle_alpha"
    /\ Leaves(HandleAlpha(host, source, Current), "emission_node_insertion")

EmissionNodeInsertionStage ==
    /\ UNCHANGED restOfLower
    /\ step = "emission_node_insertion"
    /\ Leaves(HandleEmissionNodeInsertion(host, source, Current), "handle_volumetrics")

HandleVolumetricsStage ==
    /\ UNCHANGED restOfLower
    /\ step = "handle_volumetrics"
    /\ Leaves(HandleVolumetrics(host, source, Current), "done")

LowerNext ==
    \/ CreateNodes
    \/ RebuildLinksStage
    \/ NormalMapFallbackStage
    \/ FixMixShaderLinksStage
    \/ HandleAlphaStage
    \/ EmissionNodeInsertionStage
    \/ HandleVolumetricsStage

InitLower == LowerInit /\ BatchAtRest /\ SchedAtRest /\ SockAtRest /\ TransferAtRest /\ FlattenAtRest

SpecLower == InitLower /\ [][LowerNext]_vars

(***************************************************************************)
(* Claims on lowering (specification SpecLower)                            *)
(***************************************************************************)
\* the nodes compute_schedule returns: the output nodes and all they depend on
Scheduled(a) ==
    LET d == BuildDependencyGraph(a)
        outs == Range(OutputNodes(a))
    IN  outs \cup UNION {Upstream(d, n) : n \in outs}

\* every node type create_nodes tries for the source node
TargetCandidates(info) ==
    IF /\ info.bl_idname \in {"ShaderNodeMixRGB", "ShaderNodeMix"}
       /\ info.blend_type \in DOMAIN BLEND_TYPE_MAP
    THEN BLEND_TYPE_MAP[info.blend_type] \o NodeTypeMap(info.bl_idname)
    ELSE NodeTypeMap(info.bl_idname)

\* the case of C7: a scheduled node that is neither passed through nor
\* skipped, all of whose candidates the host rejects, on a host that has a
\* placeholder type
Rejected(info) ==
    /\ info.name \in Scheduled(source)
    /\ info.bl_idname \notin PASSTHROUGH_TYPES \cup SKIP_TYPES
    /\ FirstAccepted(host, TargetCandidates(info)) = NONE
    /\ FirstAccepted(host, PlaceholderTypes) # NONE

HasPlaceholder(info) ==
    /\ info.name \in DOMAIN node_map
    /\ IsSubstring(UNSUPPORTED, NodeOf(Current, node_map[info.name]).label)

\* C7: when create_nodes has run, every rejected source node, MixRGB / Mix
\* nodes with a specialised blend mode included, has a node in the node map
\* under its name, and the label of that node carries "[UNSUPPORTED]".
C7_RejectedNodeGetsPlaceholder ==
    step = "rebuild_links" =>
        \A i \in DOMAIN source.nodes :
            Rejected(source.nodes[i]) => HasPlaceholder(source.nodes[i])

\* C8: every link is created between two nodes that are in the target tree
\* when it is created, and both are nodes of the node map.
C8_LinksBetweenMappedNodes ==
    \A c \in created :
        /\ c.from_in_tree /\ c.to_in_tree
        /\ c.from_in_map /\ c.to_in_map

\* the node _handle_emission_node_insertion adds: in the tree, not in the map
IsEmissionNode(c, id) ==
    /\ c.by = "emission_node_insertion"
    /\ \E i \in DOMAIN source.nodes : id = EmissionNodeId(source.nodes[i].name)

\* C8 (amended): every link is created between two nodes that are in the
\* target tree when it is created, so neither has been removed; each is a node
\* of the node map or the emission node the emission post-processor has just
\* added.
C8_LinksBetweenLiveNodes ==
    \A c \in created :
        /\ c.from_in_tree /\ c.to_in_tree
        /\ c.from_in_map \/ IsEmissionNode(c, c.from_node)
        /\ c.to_in_map \/ IsEmissionNode(c, c.to_node)

\* a placeholder has been removed, the fallback has made its direct link, and
\* the stages after it have run
C8_Witness ==
    /\ step = "done"
    /\ removed # {}
    /\ \E c \in created : c.by = "normal_map_fallback"
    /\ \E c \in created : c.by \notin {"rebuild_links", "normal_map_fallback"}

\* the lowered mix-shader nodes whose two material slots are found
FoundMixNodes ==
    {name \in DOMAIN node_map :
        /\ NodeGet(source, name).bl_idname = "ShaderNodeMixShader"
        /\ MixSlots(NodeInputs(host, Current, node_map[name])) # <<0, 0>>}

Slot(name, k) == MixSlots(NodeInputs(host, Current, node_map[name]))[k]

\* C9: the mix-slot post-processor leaves in slot 2 what fed slot 1 and in
\* slot 1 what fed slot 2, a slot that was not fed counting as fed by nothing;
\* when neither slot is fed the links stay as they are.
C9_MixSlotsSwapped ==
    [][FixMixShaderLinksStage =>
        \A name \in FoundMixNodes :
            LET a == Producer(links, node_map[name], Slot(name, 1))
                b == Producer(links, node_map[name], Slot(name, 2))
            IN  /\ Producer(links', node_map[name], Slot(name, 2)) = a
                /\ Producer(links', node_map[name], Slot(name, 1)) = b
                /\ (a = Unfed /\ b = Unfed) => links' = links]_vars

\* the post-processor has run on a mix node fed in both slots: the first
\* shader of the source node now feeds slot 2, the second feeds slot 1
C9_Witness ==
    /\ step = "handle_alpha"
    /\ \E name \in FoundMixNodes :
          /\ Producer(links, node_map[name], Slot(name, 2)).node = MapGet(node_map, "Principled")
          /\ Producer(links, node_map[name], Slot(name, 1)).node = MapGet(node_map, "Diffuse")
          /\ MapGet(node_map, "Principled") # NONE
          /\ MapGet(node_map, "Diffuse") # NONE

(***************************************************************************)
(* Property transfer (property_mapper.py) and the pattern flags of the     *)
(* analysis (shader_detection.py), for one Principled BSDF.                *)
(* Floats are fixed-point tenths: 5 stands for 0.5.  A value is a record   *)
(* of its kind ("float", "color", or "none" for None) and its components.  *)
(***************************************************************************)
MaxWeight == 10
GlassThreshold == 5

Float(x) == [kind |-> "float", v |-> <<x>>]
Color(c) == [kind |-> "color", v |-> c]
Vector(c) == [kind |-> "vector", v |-> c]
NoValue == [kind |-> "none", v |-> <<>>]
Black == <<0, 0, 0, 10>>
Grey == <<7, 7, 7, 10>>

\* an input socket; kind "link" is a socket without default_value
Socket(name, kind) ==
    [name |-> name, identifier |-> name, kind |-> kind,
     default_value |-> CASE kind = "float" -> Float(0)
                         [] kind = "color" -> Color(Grey)
                         [] kind = "vector" -> Vector(<<0, 0, 0>>)
                         [] OTHER -> NoValue]

SocketWith(name, value) ==
    [name |-> name, identifier |-> name, kind |-> value.kind, default_value |-> value]

\* collection.get(name): the position of the first socket of that name, 0 for None
InputsGet(node, name) ==
    First({i \in 1..Len(node.inputs) : node.inputs[i].name = name})

\* _snapshot_default and the input loop of analyze_tree
SnapshotDefault(socket) ==
    IF socket.kind \in {"float", "color", "vector"} THEN socket.default_value
    ELSE NoValue

SnapshotNode(node) ==
    LET ids == {node.inputs[i].identifier : i \in 1..Len(node.inputs)}
        \* a later socket of the same identifier overwrites an earlier one
        LastOf(id) == CHOOSE i \in 1..Len(node.inputs) :
                        /\ node.inputs[i].identifier = id
                        /\ \A j \in 1..Len(node.inputs) :
                             node.inputs[j].identifier = id => j <= i
    IN  [bl_idname |-> node.bl_idname,
         inputs |-> [id \in ids |-> SnapshotDefault(node.inputs[LastOf(id)])],
         input_identifiers |-> [id \in ids |-> node.inputs[LastOf(id)].name]]

\* the Principled BSDF branch of the pattern detection
DetectPrincipled(node) ==
    LET tw_named == InputsGet(node, "Transmission Weight")
        tw_input == IF tw_named # 0 THEN tw_named ELSE InputsGet(node, "Transmission")
        tw == IF tw_input = 0 THEN 0
              ELSE IF node.inputs[tw_input].kind = "float"
                   THEN node.inputs[tw_input].default_value.v[1] ELSE 0
        em_input == InputsGet(node, "Emission Color")
        em_col == IF em_input = 0 THEN NoValue
                  ELSE SnapshotDefault(node.inputs[em_input])
        ss_named == InputsGet(node, "Subsurface Weight")
        ss_input == IF ss_named # 0 THEN ss_named ELSE InputsGet(node, "Subsurface")
        ss == IF ss_input = 0 THEN 0
              ELSE IF node.inputs[ss_input].kind = "float"
                   THEN node.inputs[ss_input].default_value.v[1] ELSE 0
    IN  [has_glass |-> tw > GlassThreshold,
         transmission_weight |-> IF tw > GlassThreshold THEN tw ELSE 0,
         has_emission |-> /\ em_col.kind = "color"
                          /\ \E k \in 1..3 : em_col.v[k] > 0,
         has_sss |-> ss > 0]

\* _get_input_value: by identifier first, then by display name
GetInputValue(inf, name) ==
    IF name \in DOMAIN inf.inputs /\ inf.inputs[name].kind # "none"
    THEN inf.inputs[name]
    ELSE LET ids == {id \in DOMAIN inf.input_identifiers :
                        /\ inf.input_identifiers[id] = name
                        /\ inf.inputs[id].kind # "none"}
         IN  IF ids = {} THEN NoValue ELSE inf.inputs[CHOOSE id \in ids : TRUE]

\* _set_input: the first candidate the node has, with a default_value that
\* takes the value; a value of the wrong kind raises TypeError and the loop
\* goes on to the next candidate
SetInput(node, candidates, value) ==
    LET Takes(k) == LET i == InputsGet(node, candidates[k])
                    IN  i # 0 /\ node.inputs[i].kind = value.kind
        k == First({j \in 1..Len(candidates) : Takes(j)})
    IN  IF k = 0 THEN node
        ELSE [node EXCEPT !.inputs[InputsGet(node, candidates[k])].default_value = value]

\* _set_prop: setattr, swallowed when the node has no such attribute
SetProp(node, attr) ==
    IF attr \in DOMAIN node.props THEN [node EXCEPT !.props[attr] = TRUE] ELSE node

SIMPLE_TRANSFERS ==
    << <<"Base Color", <<"Albedo color", "Albedo", "Diffuse">> >>,
       <<"Metallic", <<"Metallic", "Metallic float">> >>,
       <<"Roughness", <<"Roughness", "Roughness float">> >>,
       <<"Specular IOR Level", <<"Specular", "Specular float">> >>,
       <<"IOR", <<"Dielectric IOR", "Index", "IOR">> >>,
       <<"Alpha", <<"Opacity", "Opacity float">> >>,
       <<"Coat Weight", <<"Coating", "Coating float">> >>,
       <<"Coat Roughness", <<"Coating roughness", "Coating roughness float">> >>,
       <<"Sheen Weight", <<"Sheen", "Sheen float">> >>,
       <<"Sheen Roughness", <<"Sheen roughness", "Sheen roughness float">> >>,
       <<"Anisotropic", <<"Anisotropy", "Anisotropy float">> >>,
       <<"Anisotropic Rotation", <<"Anisotropy rotation", "Rotation">> >>,
       <<"Thin Film Thickness", <<"Film width", "Thin film thickness">> >>,
       <<"Thin Film IOR", <<"Film IOR", "Thin film IOR">> >>,
       <<"Subsurface Weight", <<"SSS", "Subsurface">> >> >>

RECURSIVE SimpleTransfers(_, _, _)
SimpleTransfers(inf, node, k) ==
    IF k > Len(SIMPLE_TRANSFERS) THEN node
    ELSE LET value == GetInputValue(inf, SIMPLE_TRANSFERS[k][1])
         IN  SimpleTransfers(inf,
                 IF value.kind # "none"
                 THEN SetInput(node, SIMPLE_TRANSFERS[k][2], value) ELSE node,
                 k + 1)

TransferEmission(inf, node) ==
    LET em_color == GetInputValue(inf, "Emission Color")
        em_strength == GetInputValue(inf, "Emission Strength")
        coloured == IF em_color.kind # "none"
                    THEN SetInput(node, <<"Emission", "Emission color">>, em_color)
                    ELSE node
        powered == IF em_strength.kind # "none"
                   THEN SetInput(coloured, <<"Emission power", "Emission weight">>, em_strength)
                   ELSE coloured
        bright == IF em_strength.kind = "float" /\ em_strength.v[1] > 0 THEN TRUE
                  ELSE /\ em_strength.kind # "none"
                       /\ em_color.kind = "color"
                       /\ \E c \in 1..3 : em_color.v[c] > 0
    IN  IF bright THEN SetProp(powered, "surface_brightness") ELSE powered

IsGlassWeight_AtThreshold(tw) == tw >= GlassThreshold

\* `if tw > 0.5` of _transfer_principled
IsGlassWeight(tw) == tw > GlassThreshold

TransferTransmission(inf, node) ==
    LET named == GetInputValue(inf, "Transmission Weight")
        tw == IF named.kind # "none" THEN named ELSE GetInputValue(inf, "Transmission")
    IN  IF tw.kind # "float" THEN node
        ELSE LET weighted == SetInput(node, <<"Transmission", "Transmission float">>, tw)
             IN  IF ~IsGlassWeight(tw.v[1]) THEN weighted
                 ELSE LET blackened == SetInput(weighted,
                                           <<"Albedo color", "Albedo", "Diffuse">>,
                                           Color(Black))
                          bc == GetInputValue(inf, "Base Color")
                          tinted == IF bc.kind # "none"
                                    THEN SetInput(blackened,
                                             <<"Transmission color", "Transmission">>, bc)
                                    ELSE blackened
                      IN  SetProp(tinted, "fake_shadows")

TransferSubsurface(inf, node) ==
    LET ss_rad == GetInputValue(inf, "Subsurface Radius")
        ss_scale == GetInputValue(inf, "Subsurface Scale")
        absorbed == IF ss_rad.kind # "none"
                    THEN SetInput(node, <<"Absorption", "Medium radius">>, ss_rad)
                    ELSE node
    IN  IF ss_scale.kind # "none"
        THEN SetInput(absorbed, <<"Density", "Medium scale">>, ss_scale)
        ELSE absorbed

TransferPrincipled(inf, node) ==
    TransferSubsurface(inf,
        TransferTransmission(inf,
            TransferEmission(inf, SimpleTransfers(inf, node, 1))))

\* _get_input_value(info, name, default)
GetInputValueOr(inf, name, default) ==
    IF GetInputValue(inf, name).kind # "none" THEN GetInputValue(inf, name) ELSE default

TransferMapping(inf, node) ==
    LET loc == GetInputValueOr(inf, "Location", Vector(<<0, 0, 0>>))
        rot == GetInputValueOr(inf, "Rotation", Vector(<<0, 0, 0>>))
        scl == GetInputValueOr(inf, "Scale", Vector(<<10, 10, 10>>))
    IN  SetInput(SetInput(SetInput(node, <<"Translation", "Position", "Location">>, loc),
                          <<"Rotation", "Rotation">>, rot),
                 <<"Scale", "Scaling">>, scl)

\* transfer_properties: dispatch on the type of the source node
TransferByType(inf, node) ==
    CASE inf.bl_idname = "ShaderNodeBsdfPrincipled" -> TransferPrincipled(inf, node)
      [] inf.bl_idname = "ShaderNodeMapping" -> TransferMapping(inf, node)

(***************************************************************************)
(* _apply_scale_correction (conversion_engine.py).  The module defines the *)
(* name twice; the second definition replaces the first when the module    *)
(* is loaded, so the call in convert_material runs the second.             *)
(***************************************************************************)
Scaled(v, s) == [k \in 1..3 |-> (v[k] * s[k]) \div 10]

\* the first definition, for the one node of the layer
ApplyScaleCorrection_First(obj, inf, node) ==
    LET named == InputsGet(node, "Scale")
        scale_sock == IF named # 0 THEN named ELSE InputsGet(node, "Scaling")
    IN  IF obj = NoObject THEN node
        ELSE IF \A k \in 1..3 : obj.scale[k] = 10 THEN node
        ELSE IF inf.bl_idname # "ShaderNodeMapping" THEN node
        ELSE IF scale_sock = 0 THEN node
        ELSE IF node.inputs[scale_sock].kind # "vector" THEN node
        ELSE [node EXCEPT !.inputs[scale_sock].default_value =
                            Vector(Scaled(@.v, obj.scale))]

\* the second definition: `pass`
ApplyScaleCorrection(obj, inf, node) == node

(***************************************************************************)
(* SpecTransfer: one node is analysed, its properties are transferred to   *)
(* the node it was lowered to, and the scale correction is applied.        *)
(***************************************************************************)
TransmissionNames == {"Transmission Weight", "Transmission"}
BaseColors == {<<8, 2, 2, 10>>, <<2, 8, 2, 10>>}
EmissionColors == {Black, <<10, 10, 10, 10>>}
EmissionStrengths == {0, 10}

PrincipledNode(tname, weight, base_color, em_color, em_strength) ==
    [bl_idname |-> "ShaderNodeBsdfPrincipled",
     inputs |-> << SocketWith("Base Color", Color(base_color)),
                   SocketWith("Alpha", Float(10)),
                   SocketWith(tname, Float(weight)),
                   SocketWith("Emission Color", Color(em_color)),
                   SocketWith("Emission Strength", Float(em_strength)),
                   Socket("Normal", "link") >>]

MappingScales == {<<10, 10, 10>>, <<20, 10, 5>>}
ObjectScales == {<<10, 10, 10>>, <<20, 20, 20>>, <<10, 5, 10>>}

MappingNode(scale) ==
    [bl_idname |-> "ShaderNodeMapping",
     inputs |-> << Socket("Vector", "link"),
                   SocketWith("Location", Vector(<<0, 0, 0>>)),
                   SocketWith("Rotation", Vector(<<0, 0, 0>>)),
                   SocketWith("Scale", Vector(scale)) >>]

\* the input sockets a transform node of the render plugin may offer
TransformLayouts ==
    { << Socket("Translation", "vector"), Socket("Rotation", "vector"),
         Socket("Scale", "vector") >>,
      << Socket("Rotation", "vector"), Socket("Scaling", "vector"),
         Socket("Translation", "vector") >> }

TransformNode(layout) ==
    [bl_idname |-> "ShaderNodeOct3DTransform", inputs |-> layout,
     props |-> [a \in {} |-> FALSE]]

\* the input sockets a universal material of the render plugin may offer
UniversalLayouts ==
    { << Socket("Albedo color", "color"), Socket("Opacity", "float"),
         Socket("Emission", "color"), Socket("Transmission", "color"),
         Socket("Transmission float", "float") >>,
      << Socket("Albedo color", "color"), Socket("Transmission", "float"),
         Socket("Transmission color", "color"), Socket("Emission color", "color"),
         Socket("Emission power", "float") >>,
      << Socket("Albedo", "color"), Socket("Transmission", "color") >>,
      << Socket("Diffuse", "color"), Socket("Transmission", "link"),
         Socket("Transmission color", "color") >>,
      << Socket("Albedo color", "color"), Socket("Opacity", "float") >> }

UniversalNode(layout) ==
    [bl_idname |-> "ShaderNodeOctUniversalMat",
     inputs |-> layout,
     props |-> [a \in {"fake_shadows", "surface_brightness"} |-> FALSE]]

TransferInit ==
    /\ \/ /\ \E tname \in TransmissionNames, weight \in 0..MaxWeight,
                base_color \in BaseColors, em_color \in EmissionColors,
                em_strength \in EmissionStrengths :
                cycles_node = PrincipledNode(tname, weight, base_color, em_color,
                                             em_strength)
          /\ \E layout \in UniversalLayouts : octane_node = UniversalNode(layout)
          /\ owner = NoObject
       \/ /\ \E scale \in MappingScales : cycles_node = MappingNode(scale)
          /\ \E layout \in TransformLayouts : octane_node = TransformNode(layout)
          /\ owner \in {NoObject} \cup {[scale |-> c] : c \in ObjectScales}
    /\ node_info = NoInfo
    /\ detected = NoFlags
    /\ phase = "analyze"

\* analyze_tree on the tree that holds the node
AnalyzeTree ==
    /\ phase = "analyze"
    /\ node_info' = SnapshotNode(cycles_node)
    /\ detected' = IF cycles_node.bl_idname = "ShaderNodeBsdfPrincipled"
                   THEN DetectPrincipled(cycles_node) ELSE NoFlags
    /\ phase' = "transfer"
    /\ UNCHANGED <<cycles_node, octane_node, owner>>
    /\ UNCHANGED restOfTransfer

\* transfer_properties(info, octane_node)
TransferProperties ==
    /\ phase = "transfer"
    /\ octane_node' = TransferByType(node_info, octane_node)
    /\ phase' = "scale"
    /\ UNCHANGED <<cycles_node, node_info, detected, owner>>
    /\ UNCHANGED restOfTransfer

\* _apply_scale_correction(obj, node_map, analysis) as convert_material calls it
ApplyScaleCorrectionCall ==
    /\ phase = "scale"
    /\ octane_node' = ApplyScaleCorrection(owner, node_info, octane_node)
    /\ phase' = "done"
    /\ UNCHANGED <<cycles_node, node_info, detected, owner>>
    /\ UNCHANGED restOfTransfer

TransferNext == AnalyzeTree \/ TransferProperties \/ ApplyScaleCorrectionCall

InitTransfer == TransferInit /\ BatchAtRest /\ SchedAtRest /\ SockAtRest /\ LowerAtRest /\ FlattenAtRest

SpecTransfer == InitTransfer /\ [][TransferNext]_vars

\* what the claim speaks of
SourceValue(name) == cycles_node.inputs[InputsGet(cycles_node, name)].default_value
SourceWeight ==
    IF InputsGet(cycles_node, "Transmission Weight") # 0
    THEN SourceValue("Transmission Weight").v[1]
    ELSE SourceValue("Transmission").v[1]
ColorSlots(names) ==
    {i \in 1..Len(octane_node.inputs) :
        octane_node.inputs[i].name \in names /\ octane_node.inputs[i].kind = "color"}
BaseColorSlot == First(ColorSlots({"Albedo color", "Albedo", "Diffuse"}))
TintSlot ==
    IF ColorSlots({"Transmission color"}) # {} THEN First(ColorSlots({"Transmission color"}))
    ELSE First(ColorSlots({"Transmission"}))

\* C11: a transmission weight above 0.5 sets the glass flag, blackens the
\* base-color slot of the target and writes the source base color into the
\* transmission-tint slot; at or below 0.5 the glass flag stays false and
\* the base-color slot holds the source base color.
C11_GlassAboveHalf ==
    (phase = "done" /\ cycles_node.bl_idname = "ShaderNodeBsdfPrincipled") =>
        IF SourceWeight > GlassThreshold
        THEN /\ detected.has_glass
             /\ octane_node.inputs[BaseColorSlot].default_value = Color(Black)
             /\ TintSlot # 0 =>
                  octane_node.inputs[TintSlot].default_value = SourceValue("Base Color")
        ELSE /\ ~detected.has_glass
             /\ octane_node.inputs[BaseColorSlot].default_value = SourceValue("Base Color")

C11_Witness ==
    /\ phase = "done"
    /\ cycles_node.bl_idname = "ShaderNodeBsdfPrincipled"
    /\ SourceWeight = GlassThreshold + 1
    /\ TintSlot # 0
    /\ octane_node.inputs[TintSlot].default_value = SourceValue("Base Color")
    /\ octane_node.inputs[BaseColorSlot].default_value = Color(Black)

(***************************************************************************)
(* Alpha wiring, over SpecLower                                            *)
(***************************************************************************)
OpacityNames == {"Opacity", "Opacity float", "Alpha"}

\* the source links from an image texture's Alpha output to the Alpha input
\* of a Principled BSDF
AlphaFeeds ==
    {i \in DOMAIN source.links :
        /\ NodeGet(source, source.links[i].from_node).bl_idname = "ShaderNodeTexImage"
        /\ source.links[i].from_socket = "Alpha"
        /\ NodeGet(source, source.links[i].to_node).bl_idname = "ShaderNodeBsdfPrincipled"
        /\ source.links[i].to_socket = "Alpha"}

\* both ends were lowered and the lowered material has an opacity-like input
AlphaLowered(i) ==
    /\ MapGet(node_map, source.links[i].from_node) # NONE
    /\ MapGet(node_map, source.links[i].to_node) # NONE
    /\ NodeOutputs(Current, node_map[source.links[i].from_node]) # <<>>
    /\ \E p \in DOMAIN NodeInputs(host, Current, node_map[source.links[i].to_node]) :
            NodeInputs(host, Current, node_map[source.links[i].to_node])[p] \in OpacityNames

\* the link from the texture's Alpha output, or from its primary output when
\* it has no Alpha output, into an opacity-like input of the material
AlphaConnected(i) ==
    LET oct_from == node_map[source.links[i].from_node]
        oct_to == node_map[source.links[i].to_node]
        outputs == NodeOutputs(Current, oct_from)
        inputs == NodeInputs(host, Current, oct_to)
    IN  \E l \in links :
            /\ l.from_node = oct_from
            /\ l.to_node = oct_to
            /\ inputs[l.to_socket] \in OpacityNames
            /\ IF \E o \in DOMAIN outputs : outputs[o] = "Alpha"
               THEN outputs[l.from_socket] = "Alpha"
               ELSE outputs[l.from_socket] = "OutTex" \/ l.from_socket = 1

ClaimedFollower ==
    [rebuild_links |-> "fix_mix_shader_links",
     fix_mix_shader_links |-> "handle_alpha",
     handle_alpha |-> "emission_node_insertion",
     emission_node_insertion |-> "normal_map_fallback",
     normal_map_fallback |-> "handle_volumetrics",
     handle_volumetrics |-> "done"]

\* C13: after link resolution the post-processors run in the order mix-slot
\* correction, alpha wiring, emission semantics, unsupported-placeholder
\* bypass, volumetric wiring (then scale compensation and animation-curve
\* rebinding, which touch neither nodes nor links).
C13_ClaimedOrder ==
    [][(step \in DOMAIN ClaimedFollower) => (step' = ClaimedFollower[step])]_vars

(***************************************************************************)
(* Link resolution drops a link alone, over SpecLower                      *)
(***************************************************************************)
EndsMapped(i) ==
    /\ MapGet(node_map, source.links[i].from_node) # NONE
    /\ MapGet(node_map, source.links[i].to_node) # NONE

\* the sockets the link resolves to on the lowered nodes, 0 for None
OutSocketOf(i) ==
    ResolveOutputSocket(NodeGet(source, source.links[i].from_node).bl_idname,
        source.links[i].from_socket,
        NodeOutputs(Current, node_map[source.links[i].from_node]),
        source.links[i].from_socket_identifier)
InSocketOf(i) ==
    ResolveInputSocket(NodeGet(source, source.links[i].to_node).bl_idname,
        source.links[i].to_socket,
        NodeInputs(host, Current, node_map[source.links[i].to_node]),
        source.links[i].to_socket_identifier,
        source.links[i].to_socket_index)

Resolvable(i) == EndsMapped(i) /\ OutSocketOf(i) # 0 /\ InSocketOf(i) # 0
Refused(i) ==
    Resolvable(i) /\ LinksNewRaises(host, Current, node_map[source.links[i].to_node],
                                    InSocketOf(i))
Creatable(i) == Resolvable(i) /\ ~Refused(i)

\* the link the resolution of source link i asks the host for
TargetLink(i) ==
    [from_node |-> node_map[source.links[i].from_node], from_socket |-> OutSocketOf(i),
     to_node |-> node_map[source.links[i].to_node], to_socket |-> InSocketOf(i)]
SameInput(i, j) ==
    /\ TargetLink(i).to_node = TargetLink(j).to_node
    /\ TargetLink(i).to_socket = TargetLink(j).to_socket

\* C14: in link resolution a link with an unmapped endpoint, an unresolved
\* socket or a creation the host rejects is dropped alone: links.new is
\* called, and succeeds, for exactly the other links, and each of them is in
\* the tree afterwards unless a later one took its input.
C14_DroppedAlone ==
    [][RebuildLinksStage =>
        \A i \in DOMAIN source.links :
            /\ Creatable(i) <=>
                  /\ EndsMapped(i)
                  /\ \E c \in created' :
                      /\ c.by = "rebuild_links"
                      /\ c.from_node = TargetLink(i).from_node
                      /\ c.from_socket = TargetLink(i).from_socket
                      /\ c.to_node = TargetLink(i).to_node
                      /\ c.to_socket = TargetLink(i).to_socket
            /\ (Creatable(i) /\ ~\E j \in DOMAIN source.links :
                                    j > i /\ Creatable(j) /\ SameInput(i, j))
                  => TargetLink(i) \in links']_vars

\* link resolution has run on a host that refused a link, in a tree with an
\* unmapped or unresolved link as well, and a later link was still created
C14_Witness ==
    /\ step = "normal_map_fallback"
    /\ \E i, j, k \in DOMAIN source.links :
          /\ i < k /\ j < k
          /\ Refused(i)
          /\ ~Resolvable(j)
          /\ Creatable(k)
          /\ TargetLink(k) \in links

(***************************************************************************)
(* The link loop of analyze_tree (shader_detection.py): reroute and        *)
(* transparent nodes are flattened, the links deduplicated.                *)
(***************************************************************************)
MaxTreeLinks == 4

REROUTE == "NodeReroute"
TRANSPARENT_TYPES ==
    {"ShaderNodeSeparateColor", "ShaderNodeSeparateRGB", "ShaderNodeSeparateXYZ",
     "ShaderNodeCombineColor", "ShaderNodeCombineRGB", "ShaderNodeCombineXYZ",
     "ShaderNodeNewGeometry", "ShaderNodeLightPath"}

\* the nodes of the source trees, in an order every link follows
TreeNodeOrder == <<"Tex", "R1", "Sep", "R2", "Comb", "Principled">>
TreeNodes ==
    [Tex |-> [bl_idname |-> "ShaderNodeTexImage",
              inputs |-> <<"Vector">>, outputs |-> <<"Color", "Alpha">>],
     R1 |-> [bl_idname |-> REROUTE, inputs |-> <<"Input">>, outputs |-> <<"Output">>],
     Sep |-> [bl_idname |-> "ShaderNodeSeparateColor",
              inputs |-> <<"Color">>, outputs |-> <<"Red">>],
     R2 |-> [bl_idname |-> REROUTE, inputs |-> <<"Input">>, outputs |-> <<"Output">>],
     Comb |-> [bl_idname |-> "ShaderNodeCombineColor",
               inputs |-> <<"Red", "Green">>, outputs |-> <<"Color">>],
     Principled |-> [bl_idname |-> "ShaderNodeBsdfPrincipled",
                     inputs |-> <<"Base Color", "Alpha">>, outputs |-> <<"BSDF">>]]

TypeOf(name) == TreeNodes[name].bl_idname
IsReroute(name) == TypeOf(name) = REROUTE
IsTransparent(name) == TypeOf(name) \in TRANSPARENT_TYPES
IsReal(name) == ~IsReroute(name) /\ ~IsTransparent(name)

TreeLink(from_node, from_socket, to_node, to_socket) ==
    [from_node |-> from_node, from_socket |-> from_socket,
     to_node |-> to_node, to_socket |-> to_socket]

\* a socket of a node, or the None a trace returns
End(node, socket) == [node |-> node, socket |-> socket]
NoEnd == End(NONE, NONE)

\* socket.links[0] of an input; links[0] of an output is the first in tree order
FeedOf(t, node, socket) ==
    First({i \in DOMAIN t.links :
              t.links[i].to_node = node /\ t.links[i].to_socket = socket})
FirstOut(t, node, socket) ==
    First({i \in DOMAIN t.links :
              t.links[i].from_node = node /\ t.links[i].from_socket = socket})

RECURSIVE TraceRerouteOutput(_, _)
TraceRerouteOutput(t, node) ==
    LET fed == FeedOf(t, node, TreeNodes[node].inputs[1])
    IN  IF fed = 0 THEN End(node, TreeNodes[node].outputs[1])
        ELSE IF ~IsReroute(t.links[fed].from_node)
             THEN End(t.links[fed].from_node, t.links[fed].from_socket)
             ELSE TraceRerouteOutput(t, t.links[fed].from_node)

RECURSIVE TraceRerouteInput(_, _)
TraceRerouteInput(t, node) ==
    LET out == FirstOut(t, node, TreeNodes[node].outputs[1])
    IN  IF out = 0 THEN End(node, TreeNodes[node].inputs[1])
        ELSE IF ~IsReroute(t.links[out].to_node)
             THEN End(t.links[out].to_node, t.links[out].to_socket)
             ELSE TraceRerouteInput(t, t.links[out].to_node)

RECURSIVE TraceTransparentSource(_, _)
TraceTransparentSource(t, node) ==
    LET connected == First({k \in DOMAIN TreeNodes[node].inputs :
                               FeedOf(t, node, TreeNodes[node].inputs[k]) # 0})
        link == t.links[FeedOf(t, node, TreeNodes[node].inputs[connected])]
    IN  IF connected = 0 THEN NoEnd
        ELSE IF IsReroute(link.from_node) THEN TraceRerouteOutput(t, link.from_node)
        ELSE IF IsTransparent(link.from_node)
             THEN TraceTransparentSource(t, link.from_node)
        ELSE End(link.from_node, link.from_socket)

\* _get_socket_index
SocketIndex(node, socket) ==
    IF \E k \in DOMAIN TreeNodes[node].inputs : TreeNodes[node].inputs[k] = socket
    THEN (CHOOSE k \in DOMAIN TreeNodes[node].inputs :
              TreeNodes[node].inputs[k] = socket) - 1
    ELSE -1

\* one iteration up to the deduplication: the two ends the link is rewritten
\* to, both NoEnd when the iteration ends with `continue`
Dropped == [from |-> NoEnd, to |-> NoEnd]
FlattenLink(t, link) ==
    LET traced == IF IsTransparent(link.from_node)
                  THEN TraceTransparentSource(t, link.from_node)
                  ELSE End(link.from_node, link.from_socket)
    IN  IF traced = NoEnd THEN Dropped
        ELSE IF IsTransparent(link.to_node) THEN Dropped
        ELSE LET from == IF IsReroute(traced.node)
                         THEN TraceRerouteOutput(t, traced.node) ELSE traced
                 to == IF IsReroute(link.to_node)
                       THEN TraceRerouteInput(t, link.to_node)
                       ELSE End(link.to_node, link.to_socket)
             IN  IF from.socket = NONE \/ to.socket = NONE THEN Dropped
                 ELSE IF ~IsReal(from.node) \/ ~IsReal(to.node) THEN Dropped
                 ELSE [from |-> from, to |-> to]

LinkKey(ends) == <<ends.from.node, ends.from.socket, ends.to.node, ends.to.socket>>

\* A loop that appends without looking at seen_links.
EmitLink_NoSeen(acc, ends) ==
    [acc EXCEPT
        !.links = Append(@, LinkInfo(ends.from.node, ends.from.socket, ends.from.socket,
                                     ends.to.node, ends.to.socket, ends.to.socket,
                                     SocketIndex(ends.to.node, ends.to.socket))),
        !.has_alpha = @ \/ (TypeOf(ends.from.node) = "ShaderNodeTexImage"
                            /\ ends.from.socket = "Alpha")]

\* the rest of the iteration: deduplicate, append, detect alpha
EmitLink(acc, ends) ==
    IF LinkKey(ends) \in acc.seen_links THEN acc
    ELSE [acc EXCEPT
            !.seen_links = @ \cup {LinkKey(ends)},
            !.links = Append(@, LinkInfo(ends.from.node, ends.from.socket, ends.from.socket,
                                         ends.to.node, ends.to.socket, ends.to.socket,
                                         SocketIndex(ends.to.node, ends.to.socket))),
            !.has_alpha = @ \/ (TypeOf(ends.from.node) = "ShaderNodeTexImage"
                                /\ ends.from.socket = "Alpha")]

RECURSIVE SnapshotLinks(_, _, _)
SnapshotLinks(t, acc, k) ==
    IF k > Len(t.links) THEN acc
    ELSE LET ends == FlattenLink(t, t.links[k])
         IN  SnapshotLinks(t, IF ends = Dropped THEN acc ELSE EmitLink(acc, ends), k + 1)

(***************************************************************************)
(* SpecFlatten: analyze_tree runs its link loop on a source tree.          *)
(***************************************************************************)
NodePos(name) == CHOOSE k \in DOMAIN TreeNodeOrder : TreeNodeOrder[k] = name

\* every link from an output of a node to an input of a later node
PossibleLinks ==
    {TreeLink(TreeNodeOrder[i], TreeNodes[TreeNodeOrder[i]].outputs[o],
              TreeNodeOrder[j], TreeNodes[TreeNodeOrder[j]].inputs[n]) :
        <<i, o, j, n>> \in
            {q \in (DOMAIN TreeNodeOrder) \X (1..2) \X (DOMAIN TreeNodeOrder) \X (1..2) :
                /\ q[1] < q[3]
                /\ q[2] \in DOMAIN TreeNodes[TreeNodeOrder[q[1]]].outputs
                /\ q[4] \in DOMAIN TreeNodes[TreeNodeOrder[q[3]]].inputs}}

\* an input holds one link
RECURSIVE LinkSetsUpTo(_)
LinkSetsUpTo(n) ==
    IF n = 0 THEN {{}}
    ELSE LinkSetsUpTo(n - 1) \cup
         {s \cup {l} : <<s, l>> \in
             {q \in LinkSetsUpTo(n - 1) \X PossibleLinks :
                 \A m \in q[1] : ~(m.to_node = q[2].to_node
                                   /\ m.to_socket = q[2].to_socket)}}

LinkRank(l) ==
    ((NodePos(l.from_node) * 2
        + (CHOOSE o \in DOMAIN TreeNodes[l.from_node].outputs :
              TreeNodes[l.from_node].outputs[o] = l.from_socket)) * 8
        + NodePos(l.to_node)) * 2
        + SocketIndex(l.to_node, l.to_socket)

\* node_tree.links in creation order, here by rank, ascending or descending
RECURSIVE InOrder(_, _)
InOrder(s, ascending) ==
    IF s = {} THEN <<>>
    ELSE LET l == CHOOSE x \in s : \A y \in s :
                     IF ascending THEN LinkRank(x) <= LinkRank(y)
                     ELSE LinkRank(x) >= LinkRank(y)
         IN  <<l>> \o InOrder(s \ {l}, ascending)

FlattenInit ==
    /\ \E s \in LinkSetsUpTo(MaxTreeLinks), ascending \in BOOLEAN :
          node_tree = [links |-> InOrder(s, ascending)]
    /\ flat = NoFlat

\* the link loop of analyze_tree
AnalyzeLinks ==
    /\ ~flat.done
    /\ LET acc == SnapshotLinks(node_tree,
                      [seen_links |-> {}, links |-> <<>>, has_alpha |-> FALSE], 1)
       IN  flat' = [done |-> TRUE, links |-> acc.links, has_alpha |-> acc.has_alpha]
    /\ UNCHANGED node_tree
    /\ UNCHANGED restOfFlatten

FlattenNext == AnalyzeLinks

InitFlatten ==
    FlattenInit /\ BatchAtRest /\ SchedAtRest /\ SockAtRest /\ LowerAtRest /\ TransferAtRest

SpecFlatten == InitFlatten /\ [][FlattenNext]_vars

\* C15: every link record of the analysis has real nodes at both ends,
\* neither a reroute nor a transparent node, and no two records share
\* (from node, from socket identifier, to node, to socket identifier).
C15_RealEndsNoDuplicates ==
    flat.done =>
        /\ \A i \in DOMAIN flat.links :
              IsReal(flat.links[i].from_node) /\ IsReal(flat.links[i].to_node)
        /\ \A i, j \in DOMAIN flat.links :
              (/\ flat.links[i].from_node = flat.links[j].from_node
               /\ flat.links[i].from_socket_identifier = flat.links[j].from_socket_identifier
               /\ flat.links[i].to_node = flat.links[j].to_node
               /\ flat.links[i].to_socket_identifier = flat.links[j].to_socket_identifier)
                  => i = j

\* the loop has run on a tree in which two links flatten to the same record
C15_Witness ==
    /\ flat.done
    /\ \E i, j \in DOMAIN node_tree.links :
          /\ i # j
          /\ FlattenLink(node_tree, node_tree.links[i]) # Dropped
          /\ FlattenLink(node_tree, node_tree.links[i])
                = FlattenLink(node_tree, node_tree.links[j])
    /\ \E i \in DOMAIN node_tree.links : IsTransparent(node_tree.links[i].from_node)

\* the nearest real producer upstream of a socket: back through reroute nodes
\* and through the first connected input of transparent nodes; NoEnd when the
\* chain ends unfed
RECURSIVE NearestProducer(_, _)
NearestProducer(t, end) ==
    IF IsReal(end.node) THEN end
    ELSE LET connected == First({k \in DOMAIN TreeNodes[end.node].inputs :
                                    FeedOf(t, end.node, TreeNodes[end.node].inputs[k]) # 0})
             link == t.links[FeedOf(t, end.node, TreeNodes[end.node].inputs[connected])]
         IN  IF connected = 0 THEN NoEnd
             ELSE NearestProducer(t, End(link.from_node, link.from_socket))

\* the links of the tree that leave a transparent node and enter a real one
TransparentFeeds ==
    {k \in DOMAIN node_tree.links :
        /\ IsTransparent(node_tree.links[k].from_node)
        /\ IsReal(node_tree.links[k].to_node)}

Emitted(from, to) ==
    \E i \in DOMAIN flat.links :
        /\ flat.links[i].from_node = from.node
        /\ flat.links[i].from_socket = from.socket
        /\ flat.links[i].to_node = to.node
        /\ flat.links[i].to_socket = to.socket

\* C20: for every source link whose producer is a transparent node, through
\* any chain of transparent and reroute nodes, the analysis holds a link from
\* the nearest real upstream producer to the real consumer, unless the chain
\* has no real upstream producer.
C20_NearestProducerLinked ==
    flat.done =>
        \A k \in TransparentFeeds :
            LET l == node_tree.links[k]
                producer == NearestProducer(node_tree, End(l.from_node, l.from_socket))
            IN  producer # NoEnd => Emitted(producer, End(l.to_node, l.to_socket))

(***************************************************************************)
(* Scale compensation, over SpecTransfer                                   *)
(***************************************************************************)
ScaleSlot ==
    IF InputsGet(octane_node, "Scale") # 0 THEN InputsGet(octane_node, "Scale")
    ELSE InputsGet(octane_node, "Scaling")

\* C16: with an owning object whose scale differs from 1 on some axis, at the
\* end the scale of a lowered Mapping node is its transferred scale
\* multiplied per axis by the scale of the object.
C16_ScaleCompensated ==
    (/\ phase = "done"
     /\ cycles_node.bl_idname = "ShaderNodeMapping"
     /\ owner # NoObject
     /\ \E k \in 1..3 : owner.scale[k] # 10)
        => octane_node.inputs[ScaleSlot].default_value
              = Vector(Scaled(SourceValue("Scale").v, owner.scale))

\* the candidates create_nodes goes through for a source node, in its order
CandidatesInOrder(node) ==
    IF /\ node.bl_idname \in {"ShaderNodeMixRGB", "ShaderNodeMix"}
       /\ node.blend_type \in DOMAIN BLEND_TYPE_MAP
    THEN BLEND_TYPE_MAP[node.blend_type] \o NodeTypeMap(node.bl_idname)
    ELSE NodeTypeMap(node.bl_idname)

\* a source node that went through the candidates and has a target
Lowered(node) ==
    /\ node.bl_idname \notin PASSTHROUGH_TYPES \cup SKIP_TYPES
    /\ node.name \in DOMAIN node_map

TargetsOf(node) == {t \in DOMAIN tree : tree[t].id = node_map[node.name]}

\* C18: after create_nodes every lowered source node has exactly one target
\* node of its own, placed where the source node is, and its type is the first
\* candidate the host accepts: of the special list followed by the generic
\* list for a MixRGB / Mix node with a blend type of the table, of the generic
\* list alone otherwise.  With no candidate accepted the target is the
\* labelled placeholder.
C18_FirstAcceptedPlaced ==
    step = "rebuild_links" =>
        \A i \in DOMAIN source.nodes :
            LET node == source.nodes[i]
                list == CandidatesInOrder(node)
                ok == {k \in DOMAIN list : list[k] \in host.accepts}
            IN  Lowered(node) =>
                  /\ Cardinality(TargetsOf(node)) = 1
                  /\ \A j \in DOMAIN source.nodes :
                        (j # i /\ source.nodes[j].name \in DOMAIN node_map) =>
                            node_map[source.nodes[j].name] # node_map[node.name]
                  /\ \A t \in TargetsOf(node) :
                        /\ tree[t].location = node.location
                        /\ IF ok # {}
                           THEN \E k \in ok : /\ tree[t].bl_idname = list[k]
                                               /\ \A j \in ok : k <= j
                           ELSE IsSubstring(UNSUPPORTED, tree[t].label)

\* a multiply blend lowered to the generic mix texture on a host without the
\* multiply texture, at the place of the blend node
C18_Witness ==
    /\ step = "rebuild_links"
    /\ "ShaderNodeOctMultiplyTex" \notin host.accepts
    /\ \E i \in DOMAIN source.nodes :
          /\ source.nodes[i].bl_idname = "ShaderNodeMixRGB"
          /\ source.nodes[i].blend_type = "MULTIPLY"
          /\ Lowered(source.nodes[i])
          /\ \E t \in TargetsOf(source.nodes[i]) :
                /\ tree[t].bl_idname = "ShaderNodeOctMixTex"
                /\ tree[t].location = <<-600, 400>>

(***************************************************************************)
(* Inputs of one node that share a display name, over SpecLower            *)
(***************************************************************************)
\* the candidates the registry lists for the identifier of the input that
\* source link i enters
OwnCandidates(i) ==
    Range(InputMap(NodeGet(source, source.links[i].to_node).bl_idname,
                   source.links[i].to_socket_identifier))

\* source links i and j enter two inputs of one node that share their display
\* name and differ in their identifier; both ends of both are lowered and the
\* lowered node has an input for each identifier
TwinInputs(i, j) ==
    /\ i # j
    /\ source.links[i].to_node = source.links[j].to_node
    /\ source.links[i].to_socket = source.links[j].to_socket
    /\ source.links[i].to_socket_identifier # source.links[j].to_socket_identifier
    /\ EndsMapped(i) /\ EndsMapped(j)
    /\ OutSocketOf(i) # 0 /\ OutSocketOf(j) # 0
    /\ \A k \in {i, j} :
          OwnCandidates(k) \cap
              Range(NodeInputs(host, Current, node_map[source.links[k].to_node])) # {}

\* the link of the target tree that stands for source link i and enters an
\* input named by a candidate of its own identifier
OwnLinks(i) ==
    {c \in links :
        /\ c.from_node = node_map[source.links[i].from_node]
        /\ c.to_node = node_map[source.links[i].to_node]
        /\ NodeInputs(host, Current, c.to_node)[c.to_socket] \in OwnCandidates(i)}

\* C19: after link resolution two source links into same-named inputs of one
\* node with different identifiers stand in the target tree on two different
\* inputs, each on an input the registry lists for its own identifier.
C19_TwinInputsApart ==
    step = "normal_map_fallback" =>
        \A i, j \in DOMAIN source.links :
            TwinInputs(i, j) =>
                \E ci \in OwnLinks(i), cj \in OwnLinks(j) :
                    ci.to_socket # cj.to_socket

(***************************************************************************)
(* The schedule on cyclic analyses and without an output node, over        *)
(* SpecSched                                                               *)
(***************************************************************************)
\* C21: compute_schedule returns on every analysis, cyclic ones included,
\* and lists no node twice; without an output node it lists every node of
\* the analysis.
C21_TerminatesListsOnce ==
    /\ (deps # NoDeps /\ Len(runs) < MaxRuns) => ENABLED ComputeScheduleCall
    /\ \A r \in DOMAIN runs :
          /\ NoDuplicates(runs[r])
          /\ OutputNodes(analysis) = <<>> =>
                 Range(runs[r]) = Range(NodeNames(analysis))

\* a schedule was computed on a cyclic analysis without an output node
C21_Witness ==
    /\ runs # <<>>
    /\ ~Acyclic(deps)
    /\ OutputNodes(analysis) = <<>>
    /\ Len(runs[1]) = Len(SchedNodeNames)

(***************************************************************************)
(* The emission node between producer and material, over SpecLower         *)
(***************************************************************************)
\* the emission input of the lowered node of `node`, 0 when it has none
EmissionInput(node) ==
    IF MapGet(node_map, node.name) = NONE THEN 0
    ELSE FirstCandidate(<<"Emission", "Emission color", "Emission Color">>,
                        NodeInputs(host, Current, node_map[node.name]))

\* a lowered Principled or Emission node whose emission input is fed
EmissionFed(node) ==
    /\ node.bl_idname \in {"ShaderNodeBsdfPrincipled", "ShaderNodeEmission"}
    /\ EmissionInput(node) # 0
    /\ \E l \in links : l.to_node = node_map[node.name]
                          /\ l.to_socket = EmissionInput(node)

\* the link that feeds the emission input of the lowered node of `node`
EmissionFeed(node) ==
    CHOOSE l \in links : l.to_node = node_map[node.name]
                          /\ l.to_socket = EmissionInput(node)

\* the host has a node type for the emission node
AdapterAvailable ==
    \E k \in DOMAIN EMISSION_NODE_CANDIDATES :
        EMISSION_NODE_CANDIDATES[k] \in host.accepts

FallbackTypes == {"ShaderNodeNormalMap", "ShaderNodeBump"}

\* the lowered node of the source node is a labelled placeholder
IsPlaceholder(node) ==
    /\ MapGet(node_map, node.name) # NONE
    /\ IsSubstring(UNSUPPORTED, NodeOf(Current, node_map[node.name]).label)

\* the lowered node of `name` is there and is not a placeholder the stage
\* takes away
Stays(name) ==
    /\ MapGet(node_map, name) # NONE
    /\ ~(/\ NodeGet(source, name).bl_idname \in FallbackTypes
         /\ IsPlaceholder(NodeGet(source, name)))

\* the first original link into / out of the node whose other end is lowered
UpstreamLink(node) ==
    First({i \in DOMAIN source.links :
              /\ source.links[i].to_node = node.name
              /\ MapGet(node_map, source.links[i].from_node) # NONE})
DownstreamLink(node) ==
    First({i \in DOMAIN source.links :
              /\ source.links[i].from_node = node.name
              /\ MapGet(node_map, source.links[i].to_node) # NONE})

\* the node has a lowered producer with an output and a lowered consumer with
\* a normal input, and both stay
Bypassable(node) ==
    /\ UpstreamLink(node) # 0
    /\ DownstreamLink(node) # 0
    /\ Stays(source.links[UpstreamLink(node)].from_node)
    /\ Stays(source.links[DownstreamLink(node)].to_node)
    /\ NodeOutputs(Current, node_map[source.links[UpstreamLink(node)].from_node]) # <<>>
    /\ FirstCandidate(<<"Normal", "Bump", "ShaderNormal",
                        source.links[DownstreamLink(node)].to_socket>>,
                      NodeInputs(host, Current,
                                 node_map[source.links[DownstreamLink(node)].to_node])) # 0

\* what the bypass stage leaves of the placeholder of `node`
BypassedAndGone(node) ==
    /\ node.name \notin DOMAIN node_map'
    /\ node_map[node.name] \notin TreeIds(tree')
    /\ \A l \in links' : /\ l.from_node # node_map[node.name]
                          /\ l.to_node # node_map[node.name]
    /\ Bypassable(node) =>
          \E c \in created' \ created :
              /\ c.by = "normal_map_fallback"
              /\ c.from_node = node_map[source.links[UpstreamLink(node)].from_node]
              /\ c.to_node = node_map[source.links[DownstreamLink(node)].to_node]

NonBlack(color) == \E k \in 1..3 : color.v[k] # 0

\* C24: the analysis of a tree whose only shader is a Principled node has the
\* emission flag set exactly when the emission color of the node is not
\* black or its emission strength is not zero.
C24_EmissionFlag ==
    (phase # "analyze" /\ cycles_node.bl_idname = "ShaderNodeBsdfPrincipled") =>
        (detected.has_emission <=>
            \/ NonBlack(SourceValue("Emission Color"))
            \/ SourceValue("Emission Strength").v[1] # 0)

(***************************************************************************)
(* Specification SpecGroup: the lowering stages on source trees that hold  *)
(* a group node (ShaderNodeGroup) between a texture and the shaders, and   *)
(* one or two output nodes.                                                *)
(***************************************************************************)
GroupCatalogNodes ==
    << NodeInfo("Tex", "ShaderNodeTexImage", "Image", "MIX"),
       NodeInfo("Grp", "ShaderNodeGroup", "Group", "MIX"),
       NodeInfo("Principled", "ShaderNodeBsdfPrincipled", "Principled", "MIX"),
       NodeInfo("Diffuse", "ShaderNodeBsdfDiffuse", "Diffuse", "MIX"),
       NodeInfo("Mix", "ShaderNodeMixShader", "Mix Shader", "MIX"),
       NodeInfo("Out", "ShaderNodeOutputMaterial", "Material Output", "MIX"),
       NodeInfo("Out2", "ShaderNodeOutputMaterial", "Material Output", "MIX") >>

GroupCatalogLinks ==
    << LinkInfo("Tex", "Color", "Color", "Grp", "Color", "Input_1", 0),
       LinkInfo("Grp", "Color", "Output_2", "Principled", "Base Color", "Base Color", 0),
       LinkInfo("Grp", "Color", "Output_2", "Diffuse", "Color", "Color", 0),
       LinkInfo("Tex", "Alpha", "Alpha", "Principled", "Alpha", "Alpha", 4),
       LinkInfo("Principled", "BSDF", "BSDF", "Mix", "Shader", "Shader", 1),
       LinkInfo("Diffuse", "BSDF", "BSDF", "Mix", "Shader", "Shader_001", 2),
       LinkInfo("Principled", "BSDF", "BSDF", "Out", "Surface", "Surface", 0),
       LinkInfo("Mix", "Shader", "Shader", "Out", "Surface", "Surface", 0),
       LinkInfo("Diffuse", "BSDF", "BSDF", "Out2", "Surface", "Surface", 0) >>

\* analyze_tree on the tree that holds the chosen links, the nodes they touch
\* and the first output node
GroupAnalyze(chosen) ==
    LET ls == SelectSeq(GroupCatalogLinks, LAMBDA l : l \in chosen)
        touched == {l.from_node : l \in chosen} \cup {l.to_node : l \in chosen}
        ns == SelectSeq(GroupCatalogNodes,
                        LAMBDA n : n.name \in touched \/ n.name = "Out")
    IN  [nodes |-> ns,
         links |-> ls,
         has_alpha |-> \E i \in DOMAIN ls :
                            /\ NodeGet([nodes |-> ns], ls[i].from_node).bl_idname
                                    = "ShaderNodeTexImage"
                            /\ ls[i].from_socket = "Alpha",
         has_emission |-> FALSE,
         has_volume |-> FALSE]

\* the trees in which the group node feeds a shader
GroupSources ==
    {GroupAnalyze(chosen) :
        chosen \in {c \in SUBSET Range(GroupCatalogLinks) :
                        \E l \in c : l.from_node = "Grp"}}

\* the output nodes the copied material keeps after _clear_tree_except_output:
\* as many as the source tree has
KeptOutputs(a) ==
    [k \in 1..Len(OutputNodes(a)) |->
        TargetNode("Material Output" \o Suffix(k - 1), "ShaderNodeOutputMaterial", "")]

GroupInit ==
    /\ source \in GroupSources
    /\ host \in Hosts
    /\ step = "create_nodes"
    /\ tree = KeptOutputs(source)
    /\ removed = {}
    /\ node_map = EmptyMap
    /\ links = {}
    /\ created = {}

InitGroup == GroupInit /\ BatchAtRest /\ SchedAtRest /\ SockAtRest /\ TransferAtRest /\ FlattenAtRest

SpecGroup == InitGroup /\ [][LowerNext]_vars

\* the group nodes of the source tree that the schedule reaches
ScheduledGroupNodes ==
    {i \in DOMAIN source.nodes :
        /\ source.nodes[i].bl_idname = "ShaderNodeGroup"
        /\ \E j \in DOMAIN source.nodes :
              /\ source.nodes[j].bl_idname = "ShaderNodeOutputMaterial"
              /\ source.nodes[i].name
                    \in Upstream(BuildDependencyGraph(source), source.nodes[j].name)}

\* C25: the group node of a material is lowered with its sub-graph: once
\* create_nodes has run, every scheduled group node has an entry in the node
\* map and a node in the target tree that stands for the converted sub-graph.
C25_GroupNodeLowered ==
    step # "create_nodes" =>
        \A i \in ScheduledGroupNodes :
            /\ source.nodes[i].name \in DOMAIN node_map
            /\ node_map[source.nodes[i].name] \in TreeIds(tree)

\* C26: after create_nodes no two source nodes share a target node, also in a
\* tree with two output nodes.
C26_NodeMapInjective ==
    step # "create_nodes" =>
        \A a, b \in DOMAIN node_map : a # b => node_map[a] # node_map[b]

(***************************************************************************)
(* What the schedule reaches, over SpecLower                               *)
(***************************************************************************)
\* C27: in a tree with an output node the schedule of create_nodes holds
\* exactly the output nodes and the nodes an output node is reachable from
\* along the links, and a node outside of it never enters the node map.
C27_OnlyUpstreamOfOutput ==
    [][/\ step = "create_nodes" =>
             \A ord \in IterationOrders(BuildDependencyGraph(source)) :
                 Range(ComputeSchedule(source, ord)) = Scheduled(source)
       /\ \A i \in DOMAIN source.nodes :
             source.nodes[i].name \notin Scheduled(source) =>
                 source.nodes[i].name \notin DOMAIN node_map']_vars

\* the stages have run on a tree with a texture that feeds no output node:
\* the material is lowered, the texture is not
C27_Witness ==
    /\ step = "done"
    /\ HasNode(source, "Tex")
    /\ "Tex" \notin Scheduled(source)
    /\ "Tex" \notin DOMAIN node_map
    /\ "Principled" \in DOMAIN node_map

(***************************************************************************)
(* What a call without a result leaves behind, over Spec                   *)
(***************************************************************************)
\* C28: a call of convert_material that returns None or raises leaves the
\* host's materials and the cache as it found them.
C28_NoResultNoTrace ==
    \A i \in DOMAIN calls :
        (calls[i].raised \/ calls[i].result = NONE) =>
            /\ calls[i].materialsKept
            /\ calls[i].cacheKept

(***************************************************************************)
(* A second batch over the same object, over Spec                          *)
(***************************************************************************)
\* the operator has ended a batch at the slot at the head of `queue` (its
\* outcome is the last one recorded), and starts a batch over the object of
\* that slot again
SecondBatchStarts ==
    /\ StartOperatorActive
    /\ entry = "operator"
    /\ outcome.kind = "CANCELLED"
    /\ queue # <<>>
    /\ queue' # <<>>
    /\ Head(queue')[1] = Head(queue)[1]

\* C29: a second batch over an object, the cache reset at its start, runs no
\* pipeline and creates no material: convert_material on the material of the
\* slot the first batch had reached runs no stage and leaves the host's
\* materials as they are.
C29_SecondBatchConvertsNothing ==
    [][SecondBatchStarts =>
        LET mat == slots'[Head(queue)[1]][Head(queue)[2]]
            r == ConvertMaterial(mat, cache', materials')
        IN  /\ r.stages = <<>>
            /\ r.materials = materials']_vars

====
